---- MODULE Spec2Model ----
(***************************************************************************)
(* State-machine model of git-manager (src/main-pt-br.py): the session     *)
(* loop, the command executor run_git, the configuration store and the     *)
(* flows that drive the git backend (sync, push, pull, commit, merge,      *)
(* select).                                                                *)
(*                                                                         *)
(* Strings that the program slices, joins or searches are sequences of     *)
(* pieces (a piece is a character or an atomic word).  A displayed line is *)
(* the sequence of the pieces printed on it.                               *)
(*                                                                         *)
(* The git backend is an external process.  Its repository state is the    *)
(* record `git`; every call the program makes gets an outcome: exit 0 with *)
(* the output git computes from that state, or a fault (non-zero exit,     *)
(* timeout, spawn error) chosen by a fault plan.                           *)
(***************************************************************************)
EXTENDS Integers, Sequences, FiniteSets, TLC

VARIABLES
    current_repo,   \* global current_repo (line 11): NoRepo or a project name
    config,         \* global config dict (lines 16-21): key -> Python value
    persisted,      \* the file .gitmanager_config.json (line 13)
    repos,          \* the directories under repos_folder (line 12)
    git,            \* the repository state of the backend
    loop,           \* position of main's while loop (lines 1213-1348)
    cmd,            \* the operator command the loop has just handled
    issued,         \* the backend calls spawned while handling cmd, in order
    out,            \* the lines displayed while handling cmd, in order
    ret             \* the value the last direct run_git call returned

vars == <<current_repo, config, persisted, repos, git, loop, cmd, issued, out, ret>>

-----------------------------------------------------------------------------
(* Bounds of the model.                                                    *)

\* At most this many backend calls of one command end in a fault.
MaxFaults == 1
\* At most this many local commits are ahead of the remote branch.
MaxCommits == 1

-----------------------------------------------------------------------------
(* Python values.                                                          *)

PyNone == [t |-> "none", b |-> FALSE, s |-> <<>>]
PyBool(x) == [t |-> "bool", b |-> x, s |-> <<>>]
PyStr(x) == [t |-> "str", b |-> FALSE, s |-> x]

\* Python truth value: None, False and "" are false.
Truthy(v) == (v.t = "bool" /\ v.b) \/ (v.t = "str" /\ Len(v.s) > 0)

\* str(v), as an f-string formats it.
Format(v) ==
    IF v.t = "none" THEN <<"None">>
    ELSE IF v.t = "bool" THEN (IF v.b THEN <<"True">> ELSE <<"False">>)
    ELSE v.s

\* s[:n]
Take(s, n) == IF Len(s) <= n THEN s ELSE SubSeq(s, 1, n)

\* `needle in hay` for strings.
Contains(hay, needle) ==
    \E i \in 1..(Len(hay) - Len(needle) + 1) :
        SubSeq(hay, i, i + Len(needle) - 1) = needle

\* piece.lower()
LowerPiece(p) ==
    IF p = "Yes" THEN "yes"
    ELSE IF p = "TRUE" THEN "true"
    ELSE IF p = "Sim" THEN "sim"
    ELSE IF p = "Fix" THEN "fix"
    ELSE IF p = "S" THEN "s"
    ELSE IF p = "N" THEN "n"
    ELSE p

\* s.lower()
Lower(s) == [i \in 1..Len(s) |-> LowerPiece(s[i])]

\* n copies of piece p: p * n
Repeat(p, n) == [i \in 1..n |-> p]

\* the pieces str.strip() removes
Whitespace == {" ", "\n"}

RECURSIVE LStrip(_)
\* s.lstrip()
LStrip(s) ==
    IF Len(s) > 0 /\ s[1] \in Whitespace THEN LStrip(Tail(s)) ELSE s

RECURSIVE RStrip(_)
\* s.rstrip()
RStrip(s) ==
    IF Len(s) > 0 /\ s[Len(s)] \in Whitespace THEN RStrip(SubSeq(s, 1, Len(s) - 1)) ELSE s

\* s.strip()
Strip(s) == RStrip(LStrip(s))

RECURSIVE SplitLines(_)
\* s.split('\n'): the text between the newlines, "" included
SplitLines(s) ==
    IF \E i \in 1..Len(s) : s[i] = "\n"
    THEN LET i == CHOOSE k \in 1..Len(s) : s[k] = "\n" /\ \A j \in 1..(k - 1) : s[j] # "\n"
         IN <<SubSeq(s, 1, i - 1)>> \o SplitLines(SubSeq(s, i + 1, Len(s)))
    ELSE <<s>>

RECURSIVE Flatten(_)
\* the concatenation of the strings of a list
Flatten(ss) == IF Len(ss) = 0 THEN <<>> ELSE ss[1] \o Flatten(Tail(ss))

-----------------------------------------------------------------------------
(* The command executor.                                                   *)

NoRepo == "None"

\* What the backend process did: exited with a code, ran into the 30 s
\* timeout, or could not be spawned.
Exit(code, stdout, stderr) ==
    [kind |-> "exit", code |-> code, stdout |-> stdout, stderr |-> stderr]
TimedOut == [kind |-> "timeout", code |-> 0, stdout |-> <<>>, stderr |-> <<>>]
SpawnError == [kind |-> "spawnerr", code |-> 0, stdout |-> <<>>, stderr |-> <<>>]

\* The values run_git returns.
RetNone == [t |-> "None", code |-> 0, stdout |-> <<>>, stderr |-> <<>>]
RetBool(x) ==
    [t |-> IF x THEN "True" ELSE "False", code |-> 0, stdout |-> <<>>, stderr |-> <<>>]
RetResult(o) ==
    [t |-> "result", code |-> o.code, stdout |-> o.stdout, stderr |-> o.stderr]

\* Python truth value of a run_git return: None and False are false, True
\* and a CompletedProcess object are true.
Ok(r) == r.t \in {"True", "result"}

MsgNoProject == <<"Nenhum repositorio selecionado. Use 'cd <repo>' ou 'clone <url>'">>
MsgTimeout == <<"Comando git expirou (timeout 30s)">>
MsgExecError == <<"Erro ao executar git">>

\* One entry of `issued`: the argument list and what the process did.
Call(args, o) ==
    [args |-> args, kind |-> o.kind, code |-> o.code, stdout |-> o.stdout, stderr |-> o.stderr]

StderrFailsMutant(o) == o.code = 0 /\ Len(o.stderr) = 0

\* result.returncode == 0 (line 169)
Success(o) == o.code = 0

NoGuardMutant(repo) == FALSE

\* current_repo is None (line 147)
NoProjectSelected(repo) == repo = NoRepo

CaptureBeforeFaultMutant(repo, args, show_output, return_output, o) ==
    IF repo = NoRepo
    THEN [ret |-> RetNone, calls |-> <<>>, printed |-> <<MsgNoProject>>]
    ELSE IF return_output
    THEN [ret |-> RetResult(o), calls |-> <<Call(args, o)>>, printed |-> <<>>]
    ELSE [ret |-> RetBool(o.kind = "exit" /\ o.code = 0), calls |-> <<Call(args, o)>>,
          printed |-> IF o.kind = "timeout" THEN <<MsgTimeout>>
                      ELSE IF o.kind = "spawnerr" THEN <<MsgExecError>> ELSE <<>>]

\* run_git(args, show_output, return_output) with current_repo = repo, when
\* the process, if spawned, does o.  Gives the value returned, the calls
\* spawned and the lines printed.
run_git(repo, args, show_output, return_output, o) ==
    IF NoProjectSelected(repo)
    THEN [ret |-> RetNone, calls |-> <<>>, printed |-> <<MsgNoProject>>]
    ELSE IF o.kind = "timeout"
    THEN [ret |-> RetBool(FALSE), calls |-> <<Call(args, o)>>, printed |-> <<MsgTimeout>>]
    ELSE IF o.kind = "spawnerr"
    THEN [ret |-> RetBool(FALSE), calls |-> <<Call(args, o)>>, printed |-> <<MsgExecError>>]
    ELSE IF return_output
    THEN [ret |-> RetResult(o), calls |-> <<Call(args, o)>>, printed |-> <<>>]
    ELSE [ret |-> RetBool(Success(o)),
          calls |-> <<Call(args, o)>>,
          printed |->
              IF show_output
              THEN (IF Len(o.stdout) > 0 THEN <<o.stdout>> ELSE <<>>)
                   \o (IF Len(o.stderr) > 0 THEN <<<<"! ">> \o o.stderr>> ELSE <<>>)
              ELSE <<>>]

-----------------------------------------------------------------------------
(* The git backend.                                                        *)

Branches == {"main", "dev"}
BranchList == <<"main", "dev">>

\* The piece f"[origin/{branch}]" (lines 135, 408).
Marker(branch) == "[origin/" \o branch \o "]"

\* n output lines, one per commit.
Lines(n) == [i \in 1..(2 * n) |-> IF i % 2 = 1 THEN "commit" ELSE "\n"]

FailExit == Exit(1, <<>>, <<"fatal">>)

\* The listing of `git branch -vv`: each local branch, followed by its
\* upstream marker when it tracks a remote branch.
Listing(g) ==
    LET Row(b) == IF b \in g.up THEN <<b, Marker(b)>> ELSE <<b>>
    IN Row(BranchList[1]) \o Row(BranchList[2])

\* One changed path of the working tree: x and y are the two characters of
\* its status code (index, working tree), text is its diff.
Entry(x, y, path, text) == [x |-> x, y |-> y, path |-> path, text |-> text]

\* The output of `git status --porcelain`: one line per changed path, the
\* two-character code, a space, the path, a newline.
Porcelain(tree) ==
    Flatten([i \in 1..Len(tree) |-> <<tree[i].x, tree[i].y, " ">> \o tree[i].path \o <<"\n">>])

\* the entries with a change in the index
Staged(tree) == SelectSeq(tree, LAMBDA e : e.x \notin {" ", "?"})
\* the entries of tracked files with a change not in the index
Unstaged(tree) == SelectSeq(tree, LAMBDA e : e.y \notin {" ", "?"})

\* The output of `git diff`: the diffs of the given entries.
DiffText(entries) == Flatten([i \in 1..Len(entries) |-> entries[i].text])

\* `git add` of one entry: the change moves to the index.
StageEntry(e) ==
    IF e.x = "?" THEN [e EXCEPT !.x = "A", !.y = " "]
    ELSE IF e.y = " " THEN e
    ELSE [e EXCEPT !.x = e.y, !.y = " "]

\* The output of a --name-only listing: one path a line.
NameList(entries) ==
    Flatten([i \in 1..Len(entries) |-> entries[i].path \o <<"\n">>])

\* the files git does not track
Untracked(tree) == SelectSeq(tree, LAMBDA e : e.x = "?")

\* What git does with the argument list args in repository state g when
\* nothing goes wrong outside the repository.  g.behind counts the commits
\* of the upstream branch, as the last fetch left it, that the current
\* branch lacks; g.incoming those on the remote a fetch has yet to bring.
Normal(g, args) ==
    IF args = <<"branch", "--show-current">>
    THEN Exit(0, IF g.branch = "" THEN <<>> ELSE <<g.branch>>, <<>>)
    ELSE IF args = <<"diff", "--name-only">>
    THEN Exit(0, NameList(Unstaged(g.tree)), <<>>)
    ELSE IF args = <<"diff", "--cached", "--name-only">>
    THEN Exit(0, NameList(Staged(g.tree)), <<>>)
    ELSE IF args = <<"ls-files", "--others", "--exclude-standard">>
    THEN Exit(0, NameList(Untracked(g.tree)), <<>>)
    ELSE IF args = <<"log", "--oneline", "HEAD..@{u}">>
    THEN (IF g.branch \in g.up THEN Exit(0, Lines(g.behind), <<>>) ELSE FailExit)
    ELSE IF args = <<"branch", "-vv">>
    THEN Exit(0, Listing(g), <<>>)
    ELSE IF args = <<"log", "--oneline", "@{u}..HEAD">>
    THEN (IF g.branch \in g.up THEN Exit(0, Lines(g.ahead[g.branch]), <<>>) ELSE FailExit)
    ELSE IF Len(args) = 4 /\ args[1] = "log" /\ args[3] = "origin.."
    THEN (IF args[4] \in g.ref THEN Exit(0, Lines(g.ahead[args[4]]), <<>>) ELSE FailExit)
    ELSE IF args = <<"status", "--porcelain">>
    THEN Exit(0, Porcelain(g.tree), <<>>)
    ELSE IF args = <<"diff", "--cached">>
    THEN Exit(0, DiffText(Staged(g.tree)), <<>>)
    ELSE IF args = <<"diff">>
    THEN Exit(0, DiffText(Unstaged(g.tree)), <<>>)
    ELSE IF args = <<"status", "-uno">>
    THEN Exit(0, IF g.branch \in g.up /\ g.ahead[g.branch] > 0
                 THEN <<"Your branch is ", "ahead", " of its upstream">>
                 ELSE <<"nothing to commit">>, <<>>)
    ELSE IF args = <<"remote", "get-url", "origin">>
    THEN Exit(0, g.url, <<>>)
    ELSE IF args = <<"config", "--list">>
    THEN Exit(0, <<"remote.origin.url=">> \o g.url, <<>>)
    ELSE IF args = <<"config", "--unset", "credential.helper">>
         \/ args = <<"config", "--unset", "credential.https://github.com.username">>
    THEN Exit(5, <<>>, <<>>)
    ELSE IF Len(args) = 4 /\ args[1] = "branch" /\ args[2] = "--set-upstream-to"
    THEN (IF args[4] \in g.ref THEN Exit(0, <<"branch", "set", "up">>, <<>>) ELSE FailExit)
    ELSE IF args[1] = "checkout"
    THEN (IF args[2] \in Branches THEN Exit(0, <<>>, <<"Switched">>) ELSE FailExit)
    ELSE IF args[1] = "merge"
    THEN (IF args[2] \in Branches THEN Exit(0, <<"Already", "up", "to", "date.">>, <<>>)
          ELSE FailExit)
    ELSE IF args[1] = "commit"
    THEN (IF Len(Staged(g.tree)) > 0 THEN Exit(0, <<"1", "file", "changed">>, <<>>)
          ELSE Exit(1, <<"nothing", "to", "commit">>, <<>>))
    ELSE IF args[1] = "add"
    THEN (IF args = <<"add", ".">> \/ \E i \in 1..Len(g.tree) : g.tree[i].path = Tail(args)
          THEN Exit(0, <<>>, <<>>) ELSE FailExit)
    ELSE IF args[1] = "push"
    THEN (IF args[3] \in Branches THEN Exit(0, <<>>, <<"To", "origin">>) ELSE FailExit)
    ELSE IF args[1] = "pull"
    THEN (IF args[3] \in g.ref THEN Exit(0, <<"Already", "up", "to", "date.">>, <<>>)
          ELSE FailExit)
    ELSE Exit(0, <<>>, <<>>)

\* The repository state after git ran args with outcome o.  A call that did
\* not exit with code 0 changes nothing.  The commit count stops at
\* MaxCommits.
Effect(g, args, o) ==
    IF o.kind # "exit" \/ o.code # 0 THEN g
    ELSE IF args[1] = "commit"
    THEN [g EXCEPT !.tree = SelectSeq(g.tree, LAMBDA e : e.x \in {" ", "?"}),
                   !.ahead = IF g.branch \in Branches
                             THEN [g.ahead EXCEPT ![g.branch] =
                                      IF @ < MaxCommits THEN @ + 1 ELSE @]
                             ELSE g.ahead]
    ELSE IF args = <<"fetch">>
    THEN [g EXCEPT !.behind = g.behind + g.incoming, !.incoming = 0]
    ELSE IF args = <<"add", ".">>
    THEN [g EXCEPT !.tree = [i \in 1..Len(g.tree) |-> StageEntry(g.tree[i])]]
    ELSE IF args[1] = "add"
    THEN [g EXCEPT !.tree = [i \in 1..Len(g.tree) |->
                                 IF g.tree[i].path = Tail(args) THEN StageEntry(g.tree[i])
                                 ELSE g.tree[i]]]
    ELSE IF args[1] = "push"
    THEN [g EXCEPT !.ahead = [g.ahead EXCEPT ![args[3]] = 0],
                   !.ref = g.ref \cup {args[3]}]
    ELSE IF Len(args) = 4 /\ args[1] = "branch" /\ args[2] = "--set-upstream-to"
    THEN [g EXCEPT !.up = g.up \cup {args[4]}]
    ELSE IF args[1] = "checkout" /\ Len(args) = 2
    THEN [g EXCEPT !.branch = args[2]]
    ELSE IF Len(args) > 3 /\ args[1] = "remote" /\ args[2] = "set-url"
    THEN [g EXCEPT !.url = SubSeq(args, 4, Len(args))]
    ELSE g

\* The argument list ["log", "--oneline", f"origin/{branch}..{branch}"]
\* (line 401), kept in pieces.
LogRange(branch) == <<"log", "--oneline", "origin..", branch>>

-----------------------------------------------------------------------------
(* Fault plans: which call sites of a command end in a fault.              *)

FaultKinds == {"nonzero", "timeout", "spawnerr"}

RECURSIVE PlansUpTo(_, _)
PlansUpTo(k, n) ==
    IF n = 0 THEN {{}}
    ELSE LET prev == PlansUpTo(k, n - 1)
         IN prev \cup
            { p \cup {<<i, f>>} :
                p \in prev, i \in 1..k, f \in FaultKinds }

\* The plans for a command with k call sites: at most MaxFaults faults, at
\* most one per site.
Plans(k) ==
    { p \in PlansUpTo(k, MaxFaults) :
        \A a \in p, b \in p : a[1] = b[1] => a = b }

\* The outcome of the call at `site`.
Outcome(g, args, site, plan) ==
    IF \E f \in FaultKinds : <<site, f>> \in plan
    THEN LET f == CHOOSE x \in FaultKinds : <<site, x>> \in plan
         IN IF f = "timeout" THEN TimedOut
            ELSE IF f = "spawnerr" THEN SpawnError
            ELSE FailExit
    ELSE Normal(g, args)

-----------------------------------------------------------------------------
(* The state a command handler threads through its statements.             *)

Start ==
    [repo |-> current_repo, cfg |-> config, file |-> persisted, repos |-> repos,
     git |-> git, issued |-> <<>>, out |-> <<>>, ret |-> RetNone, crashed |-> FALSE]

\* print(line)
Say(s, line) == [s EXCEPT !.out = Append(@, line)]

\* Sequencing: the statements F that follow, run from each state of S.
\* (A handler is deterministic once the fault plan and the operator's
\* answers are fixed, so S has one state.)
Bind(S, F(_)) == UNION { F(x) : x \in S }

\* A run_git call at call site `site` of the handler.
Step(s0, args, show_output, return_output, site, plan) ==
    { [s EXCEPT !.git = IF r.calls # <<>> THEN Effect(s.git, args, o) ELSE s.git,
                !.issued = @ \o r.calls,
                !.out = @ \o r.printed,
                !.ret = r.ret] :
        <<s, o, r>> \in
            { <<x, y, run_git(x.repo, args, show_output, return_output, y)>> :
                <<x, y>> \in { <<z, Outcome(z.git, args, site, plan)>> : z \in {s0} } } }

\* An exception nobody catches leaves the handler and main's loop.
Raise(s, what) == [s EXCEPT !.out = Append(@, <<"Traceback", what>>), !.crashed = TRUE]

\* result.stdout.strip() of a one-line answer.
Text(stdout) == IF Len(stdout) = 0 THEN "" ELSE stdout[1]

\* config.get(key)
Get(cfg, key) == IF key \in DOMAIN cfg THEN cfg[key] ELSE PyNone

\* config[key] = value
Put(cfg, key, v) ==
    [k \in DOMAIN cfg \cup {key} |-> IF k = key THEN v ELSE cfg[k]]

-----------------------------------------------------------------------------
(* The configuration file.                                                 *)

\* save_config with the file system doing io: the dump succeeds, open()
\* fails and leaves the file as it was, or the write fails after open()
\* truncated the file.  Failures are printed, never raised (lines 43-47).
save_config(s, io) ==
    IF io = "ok" THEN [s EXCEPT !.file = [state |-> "ok", data |-> s.cfg]]
    ELSE IF io = "open_failed" THEN Say(s, <<"Erro ao salvar configuracoes">>)
    ELSE Say([s EXCEPT !.file = [state |-> "corrupt", data |-> <<>>]],
             <<"Erro ao salvar configuracoes">>)

IoOutcomes == {"ok", "open_failed", "write_failed"}

-----------------------------------------------------------------------------
(* Flows.  Each takes the handler state s and the fault plan of the        *)
(* command and gives the state the handler ends in; call sites are         *)
(* numbered in source order.                                               *)

ShowCurrent == <<"branch", "--show-current">>
UnpushedQuery == <<"log", "--oneline", "@{u}..HEAD">>
\* ["branch", "--set-upstream-to", f"origin/{branch}", branch] (lines 137, 410)
SetUpstream(branch) == <<"branch", "--set-upstream-to", "origin/" \o branch, branch>>

\* has_unpushed = bool(result and result.stdout.strip()) (line 1098)
has_unpushed(s3) == Ok(s3.ret) /\ Len(s3.ret.stdout) > 0

SyncIgnoresPullMutant(s2) == TRUE

\* the test of line 1090: if run_git(["pull", "origin", branch])
PullSucceeded(s2) == Ok(s2.ret)

SyncMainMutant(s1) == "main"

\* branch = result.stdout.strip() (line 1085)
SyncBranch(s1) == Text(s1.ret.stdout)

\* quick_sync (lines 1074-1107)
quick_sync(s, plan) ==
    IF s.repo = NoRepo THEN {Say(s, <<"Nenhum repositorio selecionado.">>)}
    ELSE
    Bind(Step(s, ShowCurrent, FALSE, TRUE, 1, plan), LAMBDA s1 :
    IF ~Ok(s1.ret) THEN {Say(s1, <<"Nao foi possivel determinar a branch atual.">>)}
    ELSE
    Bind(Step(Say(s1, <<"Sincronizando branch", SyncBranch(s1)>>),
              <<"pull", "origin", SyncBranch(s1)>>, TRUE, FALSE, 2, plan), LAMBDA s2 :
    IF ~PullSucceeded(s2) THEN {Say(s2, <<"Pull falhou. Verifique conflitos.">>)}
    ELSE
    Bind(Step(Say(s2, <<"Pull concluido!">>), UnpushedQuery, FALSE, TRUE, 3, plan), LAMBDA s3 :
    IF has_unpushed(s3)
    THEN Bind(Step(s3, <<"push", "origin", SyncBranch(s1)>>, TRUE, FALSE, 4, plan),
              LAMBDA s4 :
              IF Ok(s4.ret) THEN {Say(s4, <<"Push concluido!">>)}
              ELSE {Say(s4, <<"Push falhou. Verifique conexao e permissoes.">>)})
    ELSE {Say(s3, <<"Tudo sincronizado! Nenhum push necessario.">>)})))

\* the test of lines 135 and 408:
\* result and f"[origin/{branch}]" not in result.stdout
LacksUpstream(s3, branch) ==
    Ok(s3.ret) /\ ~(\E i \in 1..Len(s3.ret.stdout) : s3.ret.stdout[i] = Marker(branch))

\* lines 406-423 of quick_push: the tracking check and the push
PushTail(s2, branch, plan) ==
    Bind(Step(s2, <<"branch", "-vv">>, FALSE, TRUE, 3, plan), LAMBDA s3 :
    Bind(IF LacksUpstream(s3, branch)
         THEN Step(Say(s3, <<"Branch nao esta rastreando uma branch remota. Configurando...",
                             branch>>),
                   SetUpstream(branch), TRUE, FALSE, 4, plan)
         ELSE {s3}, LAMBDA s4 :
    Bind(Step(Say(s4, <<"Fazendo push para", branch>>),
              <<"push", "origin", branch>>, TRUE, TRUE, 5, plan), LAMBDA s5 :
    IF Ok(s5.ret) /\ s5.ret.code = 0
    THEN {Say(s5, <<"Push concluido!">>)}
    ELSE {Say(s5, <<"Falha no push. Verifique conexao, permissoes ou regras de protecao.">>)})))

\* lines 400-404 of quick_push: is there a commit to send
PushBody(s1, branch, plan) ==
    Bind(Step(s1, LogRange(branch), FALSE, TRUE, 2, plan), LAMBDA s2 :
    IF ~Ok(s2.ret) \/ Len(s2.ret.stdout) = 0
    THEN {Say(s2, <<"Nenhum commit novo para enviar em", branch>>)}
    ELSE PushTail(s2, branch, plan))

\* quick_push(branch) (lines 386-423); arg = "-" stands for no argument.
quick_push(s, arg, plan) ==
    IF s.repo = NoRepo THEN {Say(s, <<"Nenhum repositorio selecionado.">>)}
    ELSE IF arg # "-" THEN PushBody(s, arg, plan)
    ELSE
    Bind(Step(s, ShowCurrent, FALSE, TRUE, 1, plan), LAMBDA s1 :
    IF ~Ok(s1.ret) \/ Len(s1.ret.stdout) = 0
    THEN {Say(s1, <<"Nao foi possivel determinar a branch atual.">>)}
    ELSE PushBody(s1, Text(s1.ret.stdout), plan))

\* quick_pull(branch) (lines 425-434); arg = "-" stands for no argument.
quick_pull(s, arg, plan) ==
    Bind({ IF arg = "-"
           THEN (IF "default_branch" \in DOMAIN s.cfg
                 THEN Text(Format(s.cfg["default_branch"])) ELSE "main")
           ELSE arg }, LAMBDA branch :
    Bind(Step(Say(s, <<"Fazendo pull de", branch>>),
              <<"pull", "origin", branch>>, TRUE, FALSE, 1, plan), LAMBDA s1 :
    IF Ok(s1.ret) THEN {Say(s1, <<"Pull concluido!">>)}
    ELSE {Say(s1, <<"Falha no pull. Verifique conflitos.">>)}))

\* the test of lines 51 and 114
IdentityMissing(cfg) ==
    ~Truthy(Get(cfg, "user.name")) \/ ~Truthy(Get(cfg, "user.email"))

CommitNoSaveMutant(s, name, email, io) ==
    [s EXCEPT !.cfg = Put(Put(s.cfg, "user.name", PyStr(name)), "user.email", PyStr(email))]

\* lines 119-121: store the identity typed by the operator and flush it
StoreIdentity(s, name, email, io) ==
    save_config(
        [s EXCEPT !.cfg = Put(Put(s.cfg, "user.name", PyStr(name)), "user.email", PyStr(email))],
        io)

\* lines 130-143 of quick_commit: the tracking check and the commit
CommitTail(s3, message, plan) ==
    Bind(Step(s3, ShowCurrent, FALSE, TRUE, 4, plan), LAMBDA s4 :
    Bind(IF Ok(s4.ret) THEN Step(s4, <<"branch", "-vv">>, FALSE, TRUE, 5, plan) ELSE {s4},
         LAMBDA s5 :
    Bind(IF Ok(s4.ret) /\ LacksUpstream(s5, Text(s4.ret.stdout))
         THEN Step(Say(s5, <<"Branch nao esta rastreando uma branch remota. Configurando...",
                             Text(s4.ret.stdout)>>),
                   SetUpstream(Text(s4.ret.stdout)), TRUE, FALSE, 6, plan)
         ELSE {s5}, LAMBDA s6 :
    Bind(Step(Say(s6, <<"Fazendo commit...">>), <<"commit", "-m", message>>,
              TRUE, FALSE, 7, plan), LAMBDA s7 :
    IF Ok(s7.ret) THEN {Say(s7, <<"Commit realizado!", message>>)}
    ELSE {Say(s7, <<"Falha no commit. Verifique se ha mudancas para commitar.">>)}))))

\* set_git_identity(repo_specific=True) with a project selected (lines
\* 49-63), then the rest of quick_commit; call sites 2 and 3.  run_git
\* raises nothing, so the except branch is dead.
CommitWithIdentity(s1, message, plan) ==
    IF IdentityMissing(s1.cfg)
    THEN {Say(s1, <<"Identidade Git nao configurada (user.name ou user.email faltando).">>)}
    ELSE
    Bind(Step(s1, <<"config", "--local", "user.name", Text(s1.cfg["user.name"].s)>>,
              FALSE, FALSE, 2, plan), LAMBDA s2 :
    Bind(Step(s2, <<"config", "--local", "user.email", Text(s2.cfg["user.email"].s)>>,
              FALSE, FALSE, 3, plan), LAMBDA s3 :
    CommitTail(Say(s3, <<"Identidade Git configurada localmente">>), message, plan)))

StagingIgnoredMutant(s1) == FALSE

\* the test of line 110: if not run_git(["add", "."])
StagingFailed(s1) == ~Ok(s1.ret)

\* quick_commit(message) (lines 107-143).  name and email are what the
\* operator types when asked for them; io is what the file system does if
\* the configuration is saved.
quick_commit(s, message, name, email, io, plan) ==
    Bind(Step(Say(s, <<"Adicionando arquivos...">>), <<"add", ".">>, TRUE, FALSE, 1, plan),
         LAMBDA s1 :
    IF StagingFailed(s1) THEN {s1}
    ELSE IF ~IdentityMissing(s1.cfg) THEN CommitWithIdentity(s1, message, plan)
    ELSE IF ~(Len(Strip(name)) > 0 /\ Len(Strip(email)) > 0)
    THEN {Say(Say(s1, <<"Identidade Git nao configurada. Configurando agora...">>),
              <<"Nome e e-mail sao obrigatorios para fazer commits.">>)}
    ELSE
    Bind({StoreIdentity(Say(s1, <<"Identidade Git nao configurada. Configurando agora...">>),
                        Strip(name), Strip(email), io)}, LAMBDA s1b :
    CommitWithIdentity(s1b, message, plan)))

\* lines 1158-1172 of merge_branch.  Line 1159 reads .stdout of what
\* run_git returned without testing it: on False that is an AttributeError.
MergeTail(s2, source_branch, target_branch, plan) ==
    Bind(Step(s2, ShowCurrent, FALSE, TRUE, 3, plan), LAMBDA s3 :
    IF s3.ret.t # "result" THEN {Raise(s3, "AttributeError")}
    ELSE
    Bind(IF Text(s3.ret.stdout) # target_branch
         THEN Step(s3, <<"checkout", target_branch>>, TRUE, FALSE, 4, plan)
         ELSE {s3}, LAMBDA s4 :
    IF Text(s3.ret.stdout) # target_branch /\ ~Ok(s4.ret)
    THEN {Say(s4, <<"Falha ao mudar para a branch", target_branch>>)}
    ELSE
    Bind(Step(Say(s4, <<"Fazendo merge da branch", source_branch, target_branch>>),
              <<"merge", source_branch>>, TRUE, TRUE, 5, plan), LAMBDA s5 :
    IF Ok(s5.ret) /\ s5.ret.code = 0
    THEN {Say(s5, <<"Merge concluido!", source_branch, target_branch>>)}
    ELSE {Say(s5, <<"Falha no merge. Verifique conflitos ou se a branch existe.">>)})))

MergeIgnoresPendingMutant(s2) == FALSE

\* the test of line 1154: result and result.stdout.strip()
HasPending(s2) == Ok(s2.ret) /\ Len(Strip(s2.ret.stdout)) > 0

\* lines 1152-1156 of merge_branch: refuse when changes are pending
MergeBody(s1, source_branch, target_branch, plan) ==
    Bind(Step(s1, <<"status", "--porcelain">>, FALSE, TRUE, 2, plan), LAMBDA s2 :
    IF HasPending(s2)
    THEN {Say(s2, <<"Existem mudancas pendentes. Faca commit ou stash antes do merge.">>)}
    ELSE MergeTail(s2, source_branch, target_branch, plan))

\* merge_branch(source_branch, target_branch) (lines 1138-1172);
\* target = "-" stands for no argument.
merge_branch(s, source_branch, target, plan) ==
    IF s.repo = NoRepo THEN {Say(s, <<"Nenhum repositorio selecionado.">>)}
    ELSE IF target # "-" THEN MergeBody(s, source_branch, target, plan)
    ELSE
    Bind(Step(s, ShowCurrent, FALSE, TRUE, 1, plan), LAMBDA s1 :
    IF ~Ok(s1.ret) \/ Len(s1.ret.stdout) = 0
    THEN {Say(s1, <<"Nao foi possivel determinar a branch atual.">>)}
    ELSE MergeBody(s1, source_branch, Text(s1.ret.stdout), plan))

\* check_remote_diff (lines 436-447).  The second call is subprocess.run
\* itself, outside any try and with no timeout: a process that cannot be
\* spawned raises, a slow one is waited for.
check_remote_diff(s, plan) ==
    IF s.repo = NoRepo THEN {Say(s, <<"Nenhum projeto selecionado.">>)}
    ELSE
    Bind(Step(Say(s, <<"Atualizando informacoes do remoto...">>),
              <<"fetch">>, TRUE, FALSE, 1, plan), LAMBDA s1 :
    Bind({Outcome(s1.git, <<"status", "-uno">>, 2, plan)}, LAMBDA o :
    IF o.kind = "spawnerr"
    THEN {Raise([s1 EXCEPT !.issued = Append(@, Call(<<"status", "-uno">>, o))], "OSError")}
    ELSE
    Bind({IF o.kind = "timeout" THEN Normal(s1.git, <<"status", "-uno">>) ELSE o}, LAMBDA done :
    {Say([s1 EXCEPT !.issued = Append(@, Call(<<"status", "-uno">>, done))],
         <<"Status comparado ao remoto:">> \o done.stdout)})))

-----------------------------------------------------------------------------
(* The change set analyzer.                                                *)

\* s[n:]
Drop(s, n) == SubSeq(s, n + 1, Len(s))

\* the chain of tests of lines 473-480 on status = line[:2]
Category(status) ==
    IF \E i \in 1..Len(status) : status[i] = "A" THEN "added"
    ELSE IF \E i \in 1..Len(status) : status[i] = "M" THEN "modified"
    ELSE IF \E i \in 1..Len(status) : status[i] = "D" THEN "deleted"
    ELSE IF \E i \in 1..Len(status) : status[i] = "R" THEN "renamed"
    ELSE "none"

\* the list the loop of lines 469-480 builds for one category:
\* filename = line[3:] of every line whose line[:2] selects it
FilesOf(changes, c) ==
    [i \in 1..Len(SelectSeq(changes, LAMBDA line : Category(Take(line, 2)) = c)) |->
        Drop(SelectSeq(changes, LAMBDA line : Category(Take(line, 2)) = c)[i], 3)]

\* the values analyze_changes returns
NoChanges == [t |-> "None", added |-> <<>>, modified |-> <<>>, deleted |-> <<>>,
              renamed |-> <<>>, total |-> 0]
ChangeSet(added, modified, deleted, renamed, total) ==
    [t |-> "changes", added |-> added, modified |-> modified, deleted |-> deleted,
     renamed |-> renamed, total |-> total]

\* lines 461-488: changes = result.stdout.strip().split('\n') and the dict
\* built from it
Categorize(changes) ==
    ChangeSet(FilesOf(changes, "added"), FilesOf(changes, "modified"),
              FilesOf(changes, "deleted"), FilesOf(changes, "renamed"), Len(changes))

EmptyOutputIgnoredMutant(r) == ~Ok(r)

\* not result or not result.stdout.strip() (lines 457, 759)
NothingReported(r) == ~Ok(r) \/ Len(Strip(r.stdout)) = 0

\* analyze_changes (lines 449-488), its status query being call site
\* `site`; the value returned is left in ret.
analyze_changes(s, site, plan) ==
    IF s.repo = NoRepo
    THEN {[Say(s, <<"Nenhum repositorio selecionado.">>) EXCEPT !.ret = NoChanges]}
    ELSE
    Bind(Step(s, <<"status", "--porcelain">>, FALSE, TRUE, site, plan), LAMBDA s1 :
    IF NothingReported(s1.ret)
    THEN {[Say(s1, <<"Nenhuma mudanca detectada!">>) EXCEPT !.ret = NoChanges]}
    ELSE {[s1 EXCEPT !.ret = Categorize(SplitLines(Strip(s1.ret.stdout)))]})

-----------------------------------------------------------------------------
(* The content pattern classifier.  A diff is a sequence of words.         *)

\* the keys of the patterns dict, in its order (lines 534-561)
Tags == <<"bug_fixes", "features", "refactoring", "tests", "docs", "style">>

\* the words the regular expressions of a tag match (lines 535-560)
TagWords(tag) ==
    CASE tag = "bug_fixes" -> {"fix", "bug", "error", "issue", "except:"}
      [] tag = "features" -> {"add", "new", "implement", "create", "import "}
      [] tag = "refactoring" -> {"refactor", "clean", "optimize", "rename", "move"}
      [] tag = "tests" -> {"test", "spec", "assert", "@test"}
      [] tag = "docs" -> {"readme", ".md", "documentation", "comment"}
      [] tag = "style" -> {"format", "indent", "style", ".css"}

\* the sum over the tag's patterns of len(re.findall(pattern, diff,
\* re.IGNORECASE)) (lines 565-568)
Score(diff_content, tag) ==
    Cardinality({i \in 1..Len(diff_content) : LowerPiece(diff_content[i]) \in TagWords(tag)})

\* detected_patterns (lines 563-572): the tags with a positive count
Classify(diff_content) ==
    [tag \in {Tags[i] : i \in {j \in 1..Len(Tags) : Score(diff_content, Tags[j]) > 0}} |->
        Score(diff_content, tag)]

\* the values analyze_diff_content returns
Scores(map) == [t |-> "scores", map |-> map]
NoScores == Scores(<<>>)

\* the test of line 524: if not result
NeedsWorkingDiff(r) == ~Ok(r)

\* analyze_diff_content (lines 517-572); call sites site and site + 1; the
\* value returned is left in ret.
analyze_diff_content(s, site, plan) ==
    Bind(Step(s, <<"diff", "--cached">>, FALSE, TRUE, site, plan), LAMBDA s1 :
    Bind(IF NeedsWorkingDiff(s1.ret) THEN Step(s1, <<"diff">>, FALSE, TRUE, site + 1, plan)
         ELSE {s1}, LAMBDA s2 :
    IF ~Ok(s2.ret) \/ Len(s2.ret.stdout) = 0 THEN {[s2 EXCEPT !.ret = NoScores]}
    ELSE {[s2 EXCEPT !.ret = Scores(Classify(s2.ret.stdout))]}))

-----------------------------------------------------------------------------
(* The suggestion generator.                                               *)

\* the pieces of a path that name a directory
DirPieces == {"rc/"}

RECURSIVE BaseName(_)
\* Path(filename).name: what follows the last directory
BaseName(path) ==
    IF \E i \in 1..Len(path) : path[i] \in DirPieces
    THEN BaseName(Tail(path))
    ELSE path

\* the extensions of each category (lines 500-510)
Extensions ==
    [code |-> {".py", ".js", ".ts", ".java", ".cpp", ".c", ".go", ".rs"},
     frontend |-> {".css", ".scss", ".less", ".html", ".vue", ".jsx", ".tsx"},
     docs |-> {".md", ".txt", ".rst"},
     config |-> {".json", ".yaml", ".yml", ".xml", ".toml"},
     database |-> {".sql"},
     images |-> {".png", ".jpg", ".jpeg", ".gif", ".svg"}]

\* Path(file).suffix.lower() (line 496): the extension of the name, none
\* when the name is nothing but the extension
Suffix(path) ==
    IF Len(BaseName(path)) >= 2
       /\ BaseName(path)[Len(BaseName(path))]
            \in UNION {Extensions[c] : c \in DOMAIN Extensions}
    THEN LowerPiece(BaseName(path)[Len(BaseName(path))])
    ELSE ""

\* the category of a file (lines 500-513)
FileCategory(file) ==
    IF Suffix(file) \in Extensions.code THEN "code"
    ELSE IF Suffix(file) \in Extensions.frontend THEN "frontend"
    ELSE IF Suffix(file) \in Extensions.docs THEN "docs"
    ELSE IF Suffix(file) \in Extensions.config THEN "config"
    ELSE IF Suffix(file) \in Extensions.database THEN "database"
    ELSE IF Suffix(file) \in Extensions.images THEN "images"
    ELSE "other"

\* categories[c] of get_file_extension_stats (lines 490-515)
CategoryFiles(files, c) == SelectSeq(files, LAMBDA f : FileCategory(f) = c)

\* all_files (lines 582-583)
AllFiles(ci) == ci.added \o ci.modified \o ci.deleted \o ci.renamed

ThresholdZeroMutant(tag) == 0

\* the number a tag's score must exceed (lines 589-609)
Threshold(tag) ==
    CASE tag = "bug_fixes" -> 2
      [] tag = "features" -> 3
      [] tag = "refactoring" -> 1
      [] tag = "tests" -> 2
      [] tag = "docs" -> 1
      [] tag = "style" -> 2

\* the two strings a tag appends (lines 590-611); a suggestion is written
\* here without the pictograph it opens with and without accents
Themed(tag) ==
    CASE tag = "bug_fixes" -> << <<"Fix: Corrige bugs encontrados">>,
                                 <<"Bugfix: Resolve problemas identificados">> >>
      [] tag = "features" -> << <<"Feat: Adiciona nova funcionalidade">>,
                                <<"Feature: Implementa nova feature">> >>
      [] tag = "refactoring" -> << <<"Refactor: Reestrutura codigo">>,
                                   <<"Refactor: Melhora estrutura do codigo">> >>
      [] tag = "tests" -> << <<"Test: Adiciona/atualiza testes">>,
                             <<"Tests: Melhora cobertura de testes">> >>
      [] tag = "docs" -> << <<"Docs: Atualiza documentacao">>,
                            <<"Documentation: Melhora docs do projeto">> >>
      [] tag = "style" -> << <<"Style: Ajustes de formatacao e estilo">>,
                             <<"UI: Melhorias visuais">> >>

\* 'tag' in patterns and patterns['tag'] > threshold
Exceeds(patterns, tag) == tag \in DOMAIN patterns /\ patterns[tag] > Threshold(tag)

\* lines 588-611: the suggestions drawn from the pattern scores
PatternRule(patterns, k) == IF Exceeds(patterns, Tags[k]) THEN Themed(Tags[k]) ELSE <<>>

\* lines 613-622: the suggestions drawn from the kinds of files
FileRules(files) ==
    (IF Len(CategoryFiles(files, "config")) > 0
     THEN << <<"Config: Atualiza configuracoes">> >> ELSE <<>>)
    \o (IF Len(CategoryFiles(files, "database")) > 0
        THEN << <<"Database: Atualiza esquemas/queries">> >> ELSE <<>>)
    \o (IF Len(CategoryFiles(files, "frontend")) >= Len(CategoryFiles(files, "code"))
           /\ Len(CategoryFiles(files, "frontend")) > 0
        THEN << <<"UI: Atualiza interface do usuario">>, <<"Frontend: Melhorias no frontend">> >>
        ELSE <<>>)

AddAlwaysMutant(ci) == << <<"Add: Adiciona ", ToString(Len(ci.added)), " novos arquivos">> >>

\* lines 624-632: the suggestions drawn from the operations
AddRule(ci) ==
    IF Len(ci.added) > Len(ci.modified) + Len(ci.deleted)
    THEN << <<"Add: Adiciona ", ToString(Len(ci.added)), " novos arquivos">> >> ELSE <<>>
RemoveRule(ci) ==
    IF Len(ci.deleted) > 0
    THEN << <<"Remove: Remove ", ToString(Len(ci.deleted)), " arquivos">> >> ELSE <<>>
RenameRule(ci) ==
    IF Len(ci.renamed) > 0
    THEN << <<"Rename: Reorganiza ", ToString(Len(ci.renamed)), " arquivos">> >> ELSE <<>>

NoVolumeRuleMutant(ci) == <<>>

\* lines 634-642: the suggestion drawn from the number of changes
VolumeRule(ci) ==
    IF ci.total = 1
    THEN << <<"Update: Atualiza ">>
            \o BaseName(IF Len(AllFiles(ci)) > 0 THEN AllFiles(ci)[1] ELSE <<"arquivo">>) >>
    ELSE IF ci.total <= 3
    THEN << <<"Update: Pequenas atualizacoes (", ToString(ci.total), " arquivos)">> >>
    ELSE << <<"Major: Grandes mudancas (", ToString(ci.total), " arquivos)">> >>

ReverseOrderMutant(ci, patterns) ==
    VolumeRule(ci) \o RenameRule(ci) \o RemoveRule(ci) \o AddRule(ci)
    \o FileRules(AllFiles(ci))
    \o PatternRule(patterns, 6) \o PatternRule(patterns, 5) \o PatternRule(patterns, 4)
    \o PatternRule(patterns, 3) \o PatternRule(patterns, 2) \o PatternRule(patterns, 1)

\* the list `suggestions` when line 643 is reached
Assembled(ci, patterns) ==
    PatternRule(patterns, 1) \o PatternRule(patterns, 2) \o PatternRule(patterns, 3)
    \o PatternRule(patterns, 4) \o PatternRule(patterns, 5) \o PatternRule(patterns, 6)
    \o FileRules(AllFiles(ci))
    \o AddRule(ci) \o RemoveRule(ci) \o RenameRule(ci) \o VolumeRule(ci)

HashOrderMutant(unique, rest) ==
    IF loop = "ran" THEN [i \in 1..Len(rest) |-> rest[Len(rest) + 1 - i]]
    ELSE [i \in 1..Len(rest) |-> rest[i]]

RECURSIVE Unique(_, _)
\* the loop of lines 645-650: rest appended to unique, repeats left out
Unique(unique, rest) ==
    IF Len(rest) = 0 THEN unique
    ELSE IF \E i \in 1..Len(unique) : unique[i] = rest[1] THEN Unique(unique, Tail(rest))
    ELSE Unique(Append(unique, rest[1]), Tail(rest))

\* the length of the list returned, [:8] (line 652)
MaxSuggestions == 8

NoTruncationMutant(unique) == unique

\* unique_suggestions[:8] (line 652)
Truncate(unique) == Take(unique, MaxSuggestions)

\* generate_commit_suggestions with the scores analyze_diff_content
\* returned (lines 574-652, line 586 apart)
Suggest(ci, patterns) ==
    IF ci.t # "changes" THEN <<>> ELSE Truncate(Unique(<<>>, Assembled(ci, patterns)))

\* the value generate_commit_suggestions returns, with the list it was cut from
Suggestions(ci, patterns) ==
    [t |-> "suggestions", list |-> Suggest(ci, patterns),
     assembled |-> IF ci.t # "changes" THEN <<>> ELSE Assembled(ci, patterns)]

\* generate_commit_suggestions(changes_info) (lines 574-652); the calls of
\* analyze_diff_content are call sites site and site + 1; the value
\* returned is left in ret.
generate_commit_suggestions(s, ci, site, plan) ==
    IF ci.t # "changes" THEN {[s EXCEPT !.ret = Suggestions(ci, <<>>)]}
    ELSE
    Bind(analyze_diff_content(s, site, plan), LAMBDA s1 :
    {[s1 EXCEPT !.ret = Suggestions(ci, s1.ret.map)]})

-----------------------------------------------------------------------------
(* The commands built on the analyzer and the generator.                   *)

\* the lines printed one after the other
SayAll(s, lines) == [s EXCEPT !.out = @ \o lines]

\* lines 665-672: one line for each list that is not empty
CountLine(files, what) ==
    IF Len(files) > 0 THEN << <<ToString(Len(files)), what>> >> ELSE <<>>

RECURSIVE Join(_)
\* ', '.join(files)
Join(files) ==
    IF Len(files) = 0 THEN <<>>
    ELSE IF Len(files) = 1 THEN files[1]
    ELSE files[1] \o <<", ">> \o Join(Tail(files))

\* category.title()
Title(c) ==
    CASE c = "code" -> "Code" [] c = "frontend" -> "Frontend" [] c = "docs" -> "Docs"
      [] c = "config" -> "Config" [] c = "database" -> "Database"
      [] c = "images" -> "Images" [] c = "other" -> "Other"

\* the keys of categories in the order they were first used (lines 500-513)
CategoryOrder(files) == Unique(<<>>, [i \in 1..Len(files) |-> FileCategory(files[i])])

\* lines 687-688: the line of one category
CategoryLine(files, c) ==
    <<Title(c), ": ">> \o Join(Take(CategoryFiles(files, c), 3))
    \o (IF Len(CategoryFiles(files, c)) > 3
        THEN <<" (+", ToString(Len(CategoryFiles(files, c)) - 3), " mais)">> ELSE <<>>)

\* lines 664-688: the summary smart_status prints
Summary(ci) ==
    << <<"Resumo das mudancas:">> >>
    \o CountLine(ci.added, " arquivo(s) adicionado(s)")
    \o CountLine(ci.modified, " arquivo(s) modificado(s)")
    \o CountLine(ci.deleted, " arquivo(s) removido(s)")
    \o CountLine(ci.renamed, " arquivo(s) renomeado(s)")
    \o << <<"Arquivos afetados:">> >>
    \o [i \in 1..Len(CategoryOrder(AllFiles(ci))) |->
            CategoryLine(AllFiles(ci), CategoryOrder(AllFiles(ci))[i])]

\* lines 694-701: the suggestions, numbered from 1, and the commands
Numbered(list) ==
    << <<"Sugestoes de commit:">> >>
    \o [i \in 1..Len(list) |-> <<ToString(i), ". ">> \o list[i]]
    \o << <<"Comandos sugeridos:">>,
          <<"smart-commit [numero]  - Usa sugestao por numero">>,
          <<"smart-commit          - Usa primeira sugestao">>,
          <<"commit \"sua mensagem\" - Commit personalizado">> >>

\* smart_status (lines 654-705); call sites site to site + 2; the value
\* returned is left in ret.
smart_status(s, site, plan) ==
    Bind(analyze_changes(SayAll(s, <<<<"Analisando mudancas...">>, Repeat("-", 50)>>),
                         site, plan), LAMBDA s1 :
    IF s1.ret.t # "changes" THEN {[s1 EXCEPT !.ret = RetNone]}
    ELSE
    Bind(generate_commit_suggestions(SayAll(s1, Summary(s1.ret)), s1.ret, site + 1, plan),
         LAMBDA s2 :
    IF Len(s2.ret.list) > 0 THEN {SayAll(s2, Numbered(s2.ret.list))} ELSE {s2}))

\* the fault plan of a callee whose first call is call site k + 1 of the
\* command
ShiftPlan(plan, k) == { <<p[1] - k, p[2]>> : p \in {q \in plan : q[1] > k} }

\* str.isdigit() and int() of a word
IsDigit(word) == \E n \in 0..9 : ToString(n) = word

FirstOrdinalMutant(word) == 1

IntOf(word) == CHOOSE n \in 0..9 : ToString(n) = word

\* 0 <= index < len(suggestions) (line 728)
InRange(index, suggestions) == 0 <= index /\ index < Len(suggestions)

AnyAnswerConfirmsMutant(confirm) == TRUE

\* the answers that confirm (line 746)
Confirms(confirm) == Lower(confirm) \in {<<"s">>, <<"sim">>, <<"yes">>, <<"y">>}

\* lines 741-749 of smart_commit: the operator is asked and, on yes, the
\* message is committed
ConfirmAndCommit(s, message, confirm, name, email, io, plan) ==
    IF Confirms(confirm)
    THEN quick_commit(Say(s, <<"Commit sugerido: ">> \o message), message, name, email, io, plan)
    ELSE {Say(Say(s, <<"Commit sugerido: ">> \o message), <<"Commit cancelado.">>)}

\* smart_commit(suggestion_number, custom_message) (lines 707-749);
\* suggestion_number is None or the word typed (the 1 of line 796 is the
\* word "1"); call sites site to site + 2, then those of quick_commit.
smart_commit(s, suggestion_number, custom_message, confirm, name, email, io, site, plan) ==
    IF Truthy(custom_message)
    THEN quick_commit(s, custom_message.s[1], name, email, io, ShiftPlan(plan, site - 1))
    ELSE
    Bind(analyze_changes(s, site, plan), LAMBDA s1 :
    IF s1.ret.t # "changes" THEN {Say(s1, <<"Nenhuma mudanca para commit!">>)}
    ELSE
    Bind(generate_commit_suggestions(s1, s1.ret, site + 1, plan), LAMBDA s2 :
    IF Len(s2.ret.list) = 0
    THEN {Say(s2, <<"Nao foi possivel gerar sugestoes. Use commit manual.">>)}
    ELSE IF suggestion_number.t = "none"
    THEN ConfirmAndCommit(s2, s2.ret.list[1], confirm, name, email, io,
                          ShiftPlan(plan, site + 2))
    ELSE IF ~IsDigit(suggestion_number.s[1]) THEN {Say(s2, <<"Numero invalido!">>)}
    ELSE IF InRange(IntOf(suggestion_number.s[1]) - 1, s2.ret.list)
    THEN ConfirmAndCommit(s2, s2.ret.list[IntOf(suggestion_number.s[1])], confirm,
                          name, email, io, ShiftPlan(plan, site + 2))
    ELSE {Say(s2, <<"Numero invalido. Use 1-", ToString(Len(s2.ret.list))>>)}))

\* main's dispatch of smart-commit (lines 1253-1262)
smart_commit_command(s, args, confirm, name, email, io, plan) ==
    IF Len(args) > 0 /\ ~IsDigit(args[1])
    THEN smart_commit(s, PyNone, PyStr(<<args[1]>>), confirm, name, email, io, 1, plan)
    ELSE IF Len(args) > 0
    THEN smart_commit(s, PyStr(<<args[1]>>), PyNone, confirm, name, email, io, 1, plan)
    ELSE smart_commit(s, PyNone, PyNone, confirm, name, email, io, 1, plan)

\* the patterns of line 774
ExcludedPatterns == {".log", ".tmp", "node_modules/", ".env", "__pycache__/", ".pyc"}

\* any(pattern in filename.lower() ...) (lines 773-774)
Excluded(filename) == \E i \in 1..Len(filename) : LowerPiece(filename[i]) \in ExcludedPatterns

\* files_to_add (lines 767-775)
FilesToAdd(changes) ==
    SelectSeq([i \in 1..Len(changes) |-> Drop(changes[i], 3)], LAMBDA f : ~Excluded(f))

RECURSIVE StageFiles(_, _, _, _)
\* the loop of lines 779-780; call sites site, site + 1, ...
StageFiles(s, files, site, plan) ==
    IF Len(files) = 0 THEN {s}
    ELSE Bind(Step(s, <<"add">> \o files[1], FALSE, FALSE, site, plan), LAMBDA s1 :
         StageFiles(s1, Tail(files), site + 1, plan))

\* the answers that cancel (line 791)
Cancels(choice) == Lower(choice) \in {<<"n">>, <<"no">>, <<"nao">>}

\* lines 787-798 of auto_stage_and_suggest
OfferCommit(s, choice, confirm, name, email, io, site, plan) ==
    IF ~(s.ret.t = "suggestions" /\ Len(s.ret.list) > 0) THEN {s}
    ELSE IF Cancels(Strip(choice)) THEN {Say(s, <<"Quer fazer commit agora?">>)}
    ELSE IF Len(Strip(choice)) = 1 /\ IsDigit(Strip(choice)[1])
    THEN smart_commit(Say(s, <<"Quer fazer commit agora?">>), PyStr(Strip(choice)), PyNone,
                      confirm, name, email, io, site, plan)
    ELSE smart_commit(Say(s, <<"Quer fazer commit agora?">>), PyStr(<<"1">>), PyNone,
                      confirm, name, email, io, site, plan)

\* auto_stage_and_suggest (lines 751-800); call site 1 is the status
\* query, the additions follow, then smart_status and smart_commit.
auto_stage_and_suggest(s, choice, confirm, name, email, io, plan) ==
    IF s.repo = NoRepo THEN {Say(s, <<"Nenhum repositorio selecionado.">>)}
    ELSE
    Bind(Step(s, <<"status", "--porcelain">>, FALSE, TRUE, 1, plan), LAMBDA s1 :
    IF NothingReported(s1.ret) THEN {Say(s1, <<"Nenhuma mudanca detectada!">>)}
    ELSE IF Len(FilesToAdd(SplitLines(Strip(s1.ret.stdout)))) = 0
    THEN {SayAll(s1, <<<<"Adicionando arquivos modificados...">>,
                       <<"Nenhum arquivo adequado para adicionar encontrado.">>>>)}
    ELSE
    Bind(StageFiles(Say(s1, <<"Adicionando arquivos modificados...">>),
                    FilesToAdd(SplitLines(Strip(s1.ret.stdout))), 2, plan), LAMBDA s2 :
    Bind(smart_status(
            Say(s2, <<ToString(Len(FilesToAdd(SplitLines(Strip(s1.ret.stdout))))),
                      " arquivo(s) adicionado(s) ao stage">>),
            2 + Len(FilesToAdd(SplitLines(Strip(s1.ret.stdout)))), plan), LAMBDA s3 :
    OfferCommit(s3, choice, confirm, name, email, io,
                5 + Len(FilesToAdd(SplitLines(Strip(s1.ret.stdout)))), plan))))

\* len(r.stdout.strip().split('\n')) if r and r.stdout.strip() else 0
\* (lines 818, 848; the tests of lines 826-836)
Counted(r) ==
    IF Ok(r) /\ Len(Strip(r.stdout)) > 0 THEN Len(SplitLines(Strip(r.stdout))) ELSE 0

\* branch_result.stdout.strip() if branch_result else "unknown" (line 822)
CurrentBranch(r) == IF Ok(r) THEN Strip(r.stdout) ELSE <<"unknown">>

\* config.get("default_branch", "main") (line 841)
DefaultBranch(cfg) ==
    IF "default_branch" \in DOMAIN cfg THEN Format(cfg["default_branch"]) ELSE <<"main">>

\* one advisory when the count is not zero
Advice(n, text) == IF n > 0 THEN << <<ToString(n), text>> >> ELSE <<>>

\* lines 824-842: the advisories gathered before the fetch
LocalAdvice(cfg, unstaged, staged, untracked, unpushed, branch) ==
    Advice(Counted(untracked), " arquivo(s) nao rastreado(s) - considere 'auto-stage'")
    \o Advice(Counted(unstaged),
              " arquivo(s) modificado(s) - use 'smart-status' ou 'auto-stage'")
    \o Advice(Counted(staged), " arquivo(s) preparado(s) - pronto para 'smart-commit'")
    \o Advice(Counted(unpushed), " commit(s) nao enviado(s) - considere 'push'")
    \o (IF CurrentBranch(branch) # DefaultBranch(cfg)
        THEN << <<"Voce esta na branch '">> \o CurrentBranch(branch)
                \o <<"' - merge/push quando pronto">> >>
        ELSE <<>>)

\* lines 853-854: the advisory of a repository with nothing to do
OrClean(suggestions) ==
    IF Len(suggestions) = 0 THEN << <<"Tudo limpo! Pronto para trabalhar.">> >>
    ELSE suggestions

\* lines 856-864: the advisories, numbered from 1, and the commands
Report(suggestions) ==
    << <<"Sugestoes de proximos passos:">> >>
    \o [i \in 1..Len(suggestions) |-> <<ToString(i), ". ">> \o suggestions[i]]
    \o << <<"Comandos uteis:">>,
          <<"auto-stage    - Adiciona arquivos e sugere commit">>,
          <<"smart-status  - Analise detalhada com sugestoes">>,
          <<"workflow      - Esta analise">>,
          <<"quick-sync    - Pull + Push rapido">> >>

\* workflow_suggestions (lines 802-864); call sites 1 to 7
workflow_suggestions(s, plan) ==
    IF s.repo = NoRepo THEN {Say(s, <<"Nenhum repositorio selecionado.">>)}
    ELSE
    Bind(Step(Say(Say(s, <<"Analise do workflow atual:">>), Repeat("-", 40)),
              <<"diff", "--name-only">>, FALSE, TRUE, 1, plan), LAMBDA s1 :
    Bind(Step(s1, <<"diff", "--cached", "--name-only">>, FALSE, TRUE, 2, plan), LAMBDA s2 :
    Bind(Step(s2, <<"ls-files", "--others", "--exclude-standard">>, FALSE, TRUE, 3, plan),
         LAMBDA s3 :
    Bind(Step(s3, UnpushedQuery, FALSE, TRUE, 4, plan), LAMBDA s4 :
    Bind(Step(s4, ShowCurrent, FALSE, TRUE, 5, plan), LAMBDA s5 :
    Bind(Step(s5, <<"fetch">>, FALSE, FALSE, 6, plan), LAMBDA s6 :
    Bind(Step(s6, <<"log", "--oneline", "HEAD..@{u}">>, FALSE, TRUE, 7, plan), LAMBDA s7 :
    {SayAll(s7, Report(OrClean(
         LocalAdvice(s.cfg, s1.ret, s2.ret, s3.ret, s4.ret, s5.ret)
         \o Advice(Counted(s7.ret),
                   " commit(s) disponivel(is) no remoto - considere 'pull'"))))})))))))

-----------------------------------------------------------------------------
(* The configuration store.                                                *)

\* the module-level config dict (lines 16-21)
DefaultConfig ==
    ("github_token" :> PyNone) @@ ("default_branch" :> PyStr(<<"main">>))
    @@ ("auto_fetch" :> PyBool(TRUE)) @@ ("editor" :> PyStr(<<"nano">>))

NoFile == [state |-> "absent", data |-> <<>>]
CorruptFile == [state |-> "corrupt", data |-> <<>>]

\* config.update(saved_config)
Update(cfg, saved) ==
    [k \in DOMAIN cfg \cup DOMAIN saved |-> IF k \in DOMAIN saved THEN saved[k] ELSE cfg[k]]

\* lines 32-35: user.name and user.email are added when missing
EnsureIdentityKeys(cfg) ==
    [k \in DOMAIN cfg \cup {"user.name", "user.email"} |->
        IF k \in DOMAIN cfg THEN cfg[k] ELSE PyNone]

\* load_config (lines 23-37): the config after startup.  Without a file
\* nothing is done; a file that cannot be parsed raises inside the try
\* before config is touched.
load_config(file) ==
    IF file.state = "ok" THEN EnsureIdentityKeys(Update(DefaultConfig, file.data))
    ELSE DefaultConfig

\* the order in which the listing and the model enumerate the keys
KeyOrder ==
    <<"github_token", "default_branch", "auto_fetch", "editor", "user.name", "user.email",
      "theme">>

\* the length of the mask, '*' * 10 (line 872)
MaskLen == 10

\* one line of show_config (lines 871-874)
ConfigLine(cfg, key) ==
    IF key = "github_token" /\ Truthy(cfg[key])
    THEN <<key, ": ">> \o Repeat("*", MaskLen)
    ELSE <<key, ": ">> \o Format(cfg[key])

RECURSIVE SayKeys(_, _)
\* the loop of show_config over config.items(), from key i on
SayKeys(s, i) ==
    IF i > Len(KeyOrder) THEN s
    ELSE IF KeyOrder[i] \in DOMAIN s.cfg
    THEN SayKeys(Say(s, ConfigLine(s.cfg, KeyOrder[i])), i + 1)
    ELSE SayKeys(s, i + 1)

\* show_config (lines 866-874)
show_config(s) ==
    SayKeys(Say(Say(s, <<"Configuracoes atuais:">>), <<"------------------------------">>), 1)

TruthyTokens == {<<"true">>, <<"1">>, <<"yes">>, <<"sim">>}

CoerceNothingMutant(key, value) == PyStr(value)

\* the value set_config stores (lines 879-882)
Coerce(key, value) ==
    IF key = "auto_fetch" THEN PyBool(Lower(value) \in TruthyTokens) ELSE PyStr(value)

\* key in config (line 878)
KnownKey(cfg, key) == key \in DOMAIN cfg

\* lines 879-884: store, flush, confirm
StoreSetting(s, key, value, io) ==
    Say(save_config([s EXCEPT !.cfg = Put(s.cfg, key, Coerce(key, value))], io),
        <<key, " = ">> \o Format(Coerce(key, value)))

\* set_config(key, value) (lines 876-886)
set_config(s, key, value, io) ==
    IF KnownKey(s.cfg, key) THEN StoreSetting(s, key, value, io)
    ELSE Say(s, <<"Configuracao nao existe. Use 'config' para ver opcoes disponiveis.", key>>)

\* set_github_token(token) as login calls it, without name and e-mail
\* (lines 65-81, 1299)
set_github_token(s, token, io) ==
    Say(save_config([s EXCEPT !.cfg = Put(s.cfg, "github_token", PyStr(token))], io),
        <<"Token GitHub configurado com sucesso!">>)

-----------------------------------------------------------------------------
(* Selecting a project.                                                    *)

PlainUrl == <<"https://github.com/", "u/r.git">>
SshUrl == <<"git", "@github.com", ":u/r.git">>
TokenUrl(token) == <<"https://">> \o token \o <<"@github.com/", "u/r.git">>

\* the position of piece p in url, 0 when it is not there
Find(url, p) ==
    IF \E i \in 1..Len(url) : url[i] = p
    THEN CHOOSE i \in 1..Len(url) : url[i] = p /\ \A j \in 1..(i - 1) : url[j] # p
    ELSE 0

\* "@github.com" in current_url (line 1125)
HasAtHost(url) == Find(url, "@github.com/") > 0 \/ Find(url, "@github.com") > 0

\* "https://github.com/" + current_url.split("@github.com/")[1] (line 1126)
StripToken(url) ==
    <<"https://github.com/">> \o SubSeq(url, Find(url, "@github.com/") + 1, Len(url))

\* clean_url.replace("https://github.com/", f"https://{token}@github.com/")
\* (line 1132)
WithToken(clean_url, token) ==
    <<"https://">> \o token \o <<"@github.com/">> \o Tail(clean_url)

\* lines 1121-1134 of configure_git_credentials, after the remote URL was
\* read.  split(...)[1] raises IndexError on a URL that has "@github.com"
\* but not "@github.com/"; the try of line 1114 catches it.
SetRemoteToken(s3, plan) ==
    IF ~(Ok(s3.ret) /\ Len(s3.ret.stdout) > 0) THEN {s3}
    ELSE IF HasAtHost(s3.ret.stdout) /\ Find(s3.ret.stdout, "@github.com/") = 0
    THEN {Say(s3, <<"Erro ao configurar credenciais">>)}
    ELSE
    Bind({IF HasAtHost(s3.ret.stdout) THEN StripToken(s3.ret.stdout) ELSE s3.ret.stdout},
         LAMBDA clean_url :
    IF clean_url[1] # "https://github.com/" THEN {s3}
    ELSE
    Bind(Step(s3, <<"remote", "set-url", "origin">>
                  \o WithToken(clean_url, Format(s3.cfg["github_token"])),
              FALSE, FALSE, 4, plan), LAMBDA s4 :
    {Say(s4, <<"Token configurado no remote">>)}))

\* configure_git_credentials (lines 1109-1136); call sites 1 to 4
configure_git_credentials(s, plan) ==
    IF ~Truthy(Get(s.cfg, "github_token")) \/ s.repo = NoRepo THEN {s}
    ELSE
    Bind(Step(s, <<"config", "--unset", "credential.helper">>, FALSE, FALSE, 1, plan),
         LAMBDA s1 :
    Bind(Step(s1, <<"config", "--unset", "credential.https://github.com.username">>,
              FALSE, FALSE, 2, plan), LAMBDA s2 :
    Bind(Step(s2, <<"remote", "get-url", "origin">>, FALSE, TRUE, 3, plan), LAMBDA s3 :
    SetRemoteToken(s3, plan))))

\* len(result.stdout.strip().split('\n')) (line 343)
LineCount(stdout) == Len(SplitLines(Strip(stdout)))

\* quick_status (lines 330-357); call sites 6 to 8 of change_project
quick_status(s, plan) ==
    IF s.repo = NoRepo THEN {s}
    ELSE
    Bind(Step(s, ShowCurrent, FALSE, TRUE, 6, plan), LAMBDA s6 :
    Bind(Step(IF Ok(s6.ret) THEN Say(s6, <<"Branch: ", Text(s6.ret.stdout)>>) ELSE s6,
              <<"status", "--porcelain">>, FALSE, TRUE, 7, plan), LAMBDA s7 :
    Bind(Step(IF ~Ok(s7.ret) THEN s7
              ELSE IF Len(Strip(s7.ret.stdout)) > 0
              THEN Say(s7, <<"arquivo(s) modificado(s)", LineCount(s7.ret.stdout)>>)
              ELSE Say(s7, <<"Diretorio limpo">>),
              <<"status", "-uno">>, FALSE, TRUE, 8, plan), LAMBDA s8 :
    IF Ok(s8.ret) /\ (\E i \in 1..Len(s8.ret.stdout) : s8.ret.stdout[i] \in {"ahead", "behind"})
    THEN {Say(s8, s8.ret.stdout)}
    ELSE {s8})))

\* The directory that os.path.join(repos_folder, name) names (lines 271,
\* 299, 1048): the path keeps the name as it was typed, and the file system
\* takes a name with a trailing "/" to the same directory.
Resolve(name) ==
    IF name = "p1/" THEN "p1"
    ELSE IF name = "p2/" THEN "p2"
    ELSE name

PathExistsMutant(dirs, name) == dirs[Resolve(name)] # "absent"

\* os.path.isdir(path) and os.path.isdir(os.path.join(path, ".git"))
\* (line 272)
IsRepository(dirs, name) == dirs[Resolve(name)] = "repo"

\* config.get("auto_fetch", True) (line 280)
AutoFetch(cfg) == IF "auto_fetch" \in DOMAIN cfg THEN Truthy(cfg["auto_fetch"]) ELSE TRUE

SelectStopsAtFetchMutant(s, name, plan) ==
    Bind(configure_git_credentials(
             Say([s EXCEPT !.repo = name], <<"Projeto selecionado.", name>>), plan),
         LAMBDA s4 :
    Bind(IF AutoFetch(s4.cfg)
         THEN Step(Say(s4, <<"Atualizando informacoes do remoto...">>),
                   <<"fetch">>, FALSE, FALSE, 5, plan)
         ELSE {s4}, LAMBDA s5 :
    IF AutoFetch(s4.cfg) /\ ~Ok(s5.ret) THEN {s5} ELSE quick_status(s5, plan)))

\* lines 273-285 of change_project: the selection and its side effects
Select(s, name, plan) ==
    Bind(configure_git_credentials(
             Say([s EXCEPT !.repo = name], <<"Projeto selecionado.", name>>), plan),
         LAMBDA s4 :
    Bind(IF AutoFetch(s4.cfg)
         THEN Step(Say(s4, <<"Atualizando informacoes do remoto...">>),
                   <<"fetch">>, FALSE, FALSE, 5, plan)
         ELSE {s4}, LAMBDA s5 :
    quick_status(s5, plan)))

\* change_project(name) (lines 262-287)
change_project(s, name, plan) ==
    IF name = ".." THEN {Say([s EXCEPT !.repo = NoRepo], <<"Saindo do projeto atual.">>)}
    ELSE IF IsRepository(s.repos, name) THEN Select(s, name, plan)
    ELSE {Say(s, <<"Projeto nao encontrado. Use 'list' para ver projetos disponiveis.", name>>)}

\* os.path.basename(url), without a final ".git" (lines 293-297)
DefaultFolder(url) ==
    IF url[Len(url)] = ".git" THEN url[Len(url) - 1] ELSE url[Len(url)]

\* lines 306-310: the token goes into an https URL of the host
CloneUrl(cfg, url) ==
    IF Truthy(Get(cfg, "github_token")) /\ url[1] = "https://github.com/"
    THEN <<"https://">> \o Format(cfg["github_token"]) \o <<"@github.com/">> \o Tail(url)
    ELSE url

\* What `git clone` did: created the repository, exited with an error, or
\* subprocess.run raised.
CloneOutcomes == {"ok", "nonzero", "spawnerr"}

\* the repository `git clone` leaves: the default branch checked out and
\* tracking its remote branch, a clean tree, the URL given as origin
FreshClone(clone_url) ==
    [branch |-> "main", up |-> {"main"}, ref |-> {"main"},
     ahead |-> [b \in Branches |-> 0], tree |-> <<>>, url |-> clone_url,
     behind |-> 0, incoming |-> 0]

\* lines 320-323 of clone_project: the clone is there and is selected
Cloned(s, folder_name, clone_url, plan) ==
    change_project(
        Say([s EXCEPT !.repos = [@ EXCEPT ![Resolve(folder_name)] = "repo"],
                      !.git = FreshClone(clone_url)],
            <<"Clone concluido! Pasta: ", folder_name>>),
        folder_name, plan)

\* clone_project(url, folder_name) (lines 289-328); folder_name "" is None
clone_project(s, url, folder_name, o, plan) ==
    Bind({IF folder_name = "" THEN DefaultFolder(url) ELSE folder_name}, LAMBDA folder :
    IF s.repos[Resolve(folder)] # "absent"
    THEN {Say(s, <<"Pasta ja existe!", folder>>)}
    ELSE
    Bind({Say(s, <<"Clonando ">> \o url)}, LAMBDA s1 :
    IF o = "ok" THEN Cloned(s1, folder, CloneUrl(s.cfg, url), plan)
    ELSE IF o = "nonzero" THEN {Say(s1, <<"Erro ao clonar: ", "fatal">>)}
    ELSE {Say(s1, <<"Erro ao clonar: ", "exception">>)}))

\* What shutil.rmtree did: removed the tree, or raised with the tree as it
\* was, or raised after it had removed .git.
RemoveOutcomes == {"removed", "failed", "failed_partly"}

\* current_repo == path (line 1067)
IsCurrent(s, name) == s.repo = name

\* lines 1062-1070 of delete_project
Remove(s, name, rm) ==
    IF rm = "removed"
    THEN Bind({Say([s EXCEPT !.repos = [@ EXCEPT ![Resolve(name)] = "absent"]],
                   <<"Projeto excluido com sucesso!", name>>)}, LAMBDA s1 :
         IF IsCurrent(s1, name)
         THEN {Say([s1 EXCEPT !.repo = NoRepo], <<"Saindo do projeto atual.">>)}
         ELSE {s1})
    ELSE {Say([s EXCEPT !.repos = [@ EXCEPT ![Resolve(name)] =
                                       IF rm = "failed_partly" THEN "dir" ELSE @]],
              <<"Erro ao excluir projeto">>)}

\* delete_project(name) (lines 1046-1072)
delete_project(s, name, confirm, rm) ==
    IF s.repos[Resolve(name)] = "absent"
    THEN {Say(s, <<"Projeto nao encontrado.", name>>)}
    ELSE IF s.repos[Resolve(name)] # "repo"
    THEN {Say(s, <<"nao e um repositorio git valido.", name>>)}
    ELSE IF Confirms(confirm) THEN Remove(s, name, rm)
    ELSE {Say(s, <<"Exclusao cancelada.">>)}

\* the number of token characters debug shows, [:20] (line 249)
TokenPrefix == 20

\* 'credential' in line or 'github' in line (line 259)
MentionsGithub(line) ==
    \E i \in 1..Len(line) :
        line[i] \in {"https://github.com/", "@github.com/", "@github.com", "credential"}

\* debug_git_config (lines 245-260).  split('\\n') splits at a backslash
\* followed by n, which the output does not hold: the output is one line.
debug_git_config(s, plan) ==
    IF s.repo = NoRepo THEN {s}
    ELSE
    Bind(Step(Say(Say(s, <<"Debug Git Config:">>),
                  IF Truthy(Get(s.cfg, "github_token"))
                  THEN <<"Config token: ">> \o Take(s.cfg["github_token"].s, TokenPrefix)
                       \o <<"...">>
                  ELSE <<"None">>),
              <<"remote", "get-url", "origin">>, FALSE, TRUE, 1, plan), LAMBDA s1 :
    Bind(Step(IF Ok(s1.ret) THEN Say(s1, <<"Remote URL: ">> \o s1.ret.stdout) ELSE s1,
              <<"config", "--list">>, FALSE, TRUE, 2, plan), LAMBDA s2 :
    IF Ok(s2.ret) /\ MentionsGithub(s2.ret.stdout)
    THEN {Say(s2, <<"Git config: ">> \o s2.ret.stdout)}
    ELSE {s2}))

-----------------------------------------------------------------------------
(* The session loop.                                                       *)

\* The repository states the flows start from.  A branch that tracks a
\* remote branch has that remote branch.
\* a working tree with one tracked file modified and not staged
DirtyTree == <<Entry(" ", "M", <<"a", ".py">>, <<"fix">>)>>

GitStates ==
    { [branch |-> b, up |-> u, ref |-> r, ahead |-> a, tree |-> d, url |-> PlainUrl,
       behind |-> 0, incoming |-> 0] :
        b \in Branches \cup {""}, u \in SUBSET Branches, r \in SUBSET Branches,
        a \in [Branches -> 0..MaxCommits], d \in {<<>>, DirtyTree} }

CleanGit ==
    [branch |-> "main", up |-> {"main"}, ref |-> {"main"},
     ahead |-> [b \in Branches |-> 0], tree |-> <<>>, url |-> PlainUrl,
     behind |-> 0, incoming |-> 0]

\* the directories under repos_folder: a repository, a directory without
\* .git, and a name that does not exist
SomeRepos == ("p1" :> "repo") @@ ("junk" :> "dir") @@ ("nope" :> "absent")

NoCmd ==
    [name |-> "", args |-> <<>>, opts |-> <<>>,
     pre |-> [repo |-> NoRepo, cfg |-> <<>>, file |-> NoFile, git |-> CleanGit]]

\* The handler returned (or raised): main's loop is back at input(), or the
\* exception ended main.
Done(name, args, opts, s) ==
    /\ current_repo' = s.repo
    /\ config' = s.cfg
    /\ persisted' = s.file
    /\ repos' = s.repos
    /\ git' = s.git
    /\ issued' = s.issued
    /\ out' = s.out
    /\ ret' = s.ret
    /\ cmd' = [name |-> name, args |-> args, opts |-> opts,
               pre |-> [repo |-> current_repo, cfg |-> config, file |-> persisted, git |-> git]]
    /\ loop' = IF s.crashed THEN "crashed" ELSE "ran"

\* a command whose handler asked the operator nothing worth keeping
Finish(name, args, s) == Done(name, args, <<>>, s)

\* main reads the next command (line 1218)
Prompt ==
    /\ loop = "ran"
    /\ loop' = "prompt"
    /\ cmd' = NoCmd
    /\ issued' = <<>>
    /\ out' = <<>>
    /\ ret' = RetNone
    /\ UNCHANGED <<current_repo, config, persisted, repos, git>>

\* exit, quit, Ctrl-C or end of input at the prompt (lines 1219-1233)
Quit ==
    /\ loop = "prompt"
    /\ loop' = "exited"
    /\ UNCHANGED <<current_repo, config, persisted, repos, git, cmd, issued, out, ret>>

BranchArgs == Branches \cup {"-"}

\* quick-sync | sync (line 1267)
Sync ==
    /\ loop = "prompt"
    /\ \E plan \in Plans(4) : \E s \in {Start} : \E t \in quick_sync(s, plan) : Finish("sync", <<>>, t)

\* push [branch] (lines 1284-1286)
Push ==
    /\ loop = "prompt"
    /\ \E arg \in BranchArgs, plan \in Plans(5) :
          \E s \in {Start} : \E t \in quick_push(s, arg, plan) : Finish("push", <<arg>>, t)

\* pull [branch] (lines 1287-1289)
Pull ==
    /\ loop = "prompt"
    /\ \E arg \in BranchArgs, plan \in Plans(1) :
          \E s \in {Start} : \E t \in quick_pull(s, arg, plan) : Finish("pull", <<arg>>, t)

\* what the operator may type when quick_commit asks for name and e-mail
IdentityInputs ==
    {<<<<"ana">>, <<"a@x">>>>, <<<<>>, <<"a@x">>>>, <<<<"ana">>, <<>>>>, <<<<" ">>, <<"a@x">>>>}

\* commit <message> (lines 1279-1281)
Commit ==
    /\ loop = "prompt"
    /\ \E typed \in (IF IdentityMissing(config) THEN IdentityInputs ELSE {<<<<>>, <<>>>>}),
          io \in (IF IdentityMissing(config) THEN IoOutcomes ELSE {"ok"}),
          plan \in Plans(7) :
          \E s \in {Start} :
          \E t \in quick_commit(s, "msg", typed[1], typed[2], io, plan) :
             Finish("commit", <<"msg">>, t)

\* merge <source-branch> [target-branch] (lines 1324-1328)
Merge ==
    /\ loop = "prompt"
    /\ \E source \in Branches, target \in BranchArgs, plan \in Plans(5) :
          \E s \in {Start} : \E t \in merge_branch(s, source, target, plan) :
             Finish("merge", <<source, target>>, t)

\* diff (line 1291)
Diff ==
    /\ loop = "prompt"
    /\ \E plan \in Plans(2) : \E s \in {Start} : \E t \in check_remote_diff(s, plan) : Finish("diff", <<>>, t)

WithIdentity(cfg) ==
    Put(Put(cfg, "user.name", PyStr(<<"ana">>)), "user.email", PyStr(<<"a@x">>))

InitFlow ==
    /\ current_repo \in {NoRepo, "p1"}
    /\ config \in {DefaultConfig, WithIdentity(DefaultConfig)}
    /\ persisted = NoFile
    /\ repos = SomeRepos
    /\ git \in (IF current_repo = NoRepo THEN {CleanGit}
                ELSE {g \in GitStates : g.up \subseteq g.ref})
    /\ loop = "prompt"
    /\ cmd = NoCmd
    /\ issued = <<>>
    /\ out = <<>>
    /\ ret = RetNone

NextFlow == Sync \/ Push \/ Pull \/ Commit \/ Merge \/ Diff \/ Prompt \/ Quit

\* The flows that drive the backend, from every repository state.
SpecFlow == InitFlow /\ [][NextFlow]_vars

-----------------------------------------------------------------------------
(* The configuration store over a session: started from each kind of       *)
(* configuration file, then driven by config, login and commit.            *)

Tok == <<"t", "k", "1">>
TokLong == <<"g", "h", "p", "_">> \o Repeat("x", TokenPrefix)

\* The files a session can find at startup: none, one that is not JSON,
\* one written by an earlier login, one written after a commit stored the
\* identity, and one holding a key of another version of the tool.
ConfigFiles ==
    { NoFile, CorruptFile,
      [state |-> "ok", data |-> Put(DefaultConfig, "github_token", PyStr(TokLong))],
      [state |-> "ok", data |-> WithIdentity(DefaultConfig)],
      [state |-> "ok", data |-> Put(DefaultConfig, "theme", PyStr(<<"light">>))] }

\* what the operator may type after config
ConfigInputs ==
    { <<"github_token", Tok>>, <<"auto_fetch", <<"Yes">>>>, <<"auto_fetch", <<"off">>>>,
      <<"auto_fetch", <<"TRUE">>>>, <<"auto_fetch", <<"1">>>>, <<"auto_fetch", <<"0">>>>,
      <<"auto_fetch", <<"Sim">>>>, <<"default_branch", <<"Dev">>>>,
      <<"user.name", <<"bob">>>>, <<"theme", <<"dark">>>>, <<"colour", <<"red">>>> }

\* config <key> <value> (lines 1302-1306)
SetConfig ==
    /\ loop = "prompt"
    /\ \E input \in ConfigInputs, io \in IoOutcomes :
          \E s \in {Start} : \E t \in {set_config(s, input[1], input[2], io)} :
             Finish("config", <<input[1]>> \o input[2], t)

\* config (lines 1302-1304)
ShowConfig ==
    /\ loop = "prompt"
    /\ \E s \in {Start} : \E t \in {show_config(s)} : Finish("config", <<>>, t)

\* login <token> (lines 1297-1299)
Login ==
    /\ loop = "prompt"
    /\ \E token \in {TokLong}, io \in IoOutcomes :
          \E s \in {Start} : \E t \in {set_github_token(s, token, io)} :
             Finish("login", token, t)

\* A session at its prompt with the store as main loaded it (lines
\* 1202-1211), before any project was selected or with project p1 selected.
Init ==
    /\ persisted \in ConfigFiles
    /\ config = load_config(persisted)
    /\ current_repo \in {NoRepo, "p1"}
    /\ repos = SomeRepos
    /\ git = CleanGit
    /\ loop = "prompt"
    /\ cmd = NoCmd
    /\ issued = <<>>
    /\ out = <<>>
    /\ ret = RetNone

\* the project names the operator may type
TypedNames == {"p1", "p1/", "p2", "junk", "nope"}

\* cd <project> (lines 1238-1240)
ChangeProject ==
    /\ loop = "prompt"
    /\ \E name \in {n \in TypedNames : Resolve(n) \in DOMAIN repos} \cup {".."},
          plan \in Plans(8) :
          \E s \in {Start} : \E t \in change_project(s, name, plan) : Finish("cd", <<name>>, t)

\* debug (line 1311)
Debug ==
    /\ loop = "prompt"
    /\ \E plan \in Plans(2) :
          \E s \in {Start} : \E t \in debug_git_config(s, plan) : Finish("debug", <<>>, t)

Next == SetConfig \/ ShowConfig \/ Login \/ Commit \/ Prompt \/ Quit

Spec == Init /\ [][Next]_vars

\* The sessions that select projects: the store is as some earlier session
\* left it, the remote of the project is plain, tokenized or an SSH one.
SelectConfigs ==
    { DefaultConfig,
      Put(DefaultConfig, "github_token", PyStr(Tok)),
      Put(DefaultConfig, "github_token", PyStr(TokLong)),
      Put(Put(DefaultConfig, "github_token", PyStr(Tok)), "auto_fetch", PyBool(FALSE)) }

InitSelect ==
    /\ config \in SelectConfigs
    /\ persisted = [state |-> "ok", data |-> config]
    /\ current_repo = NoRepo
    /\ repos = SomeRepos
    /\ git \in { [CleanGit EXCEPT !.url = u, !.tree = d] :
                    u \in {PlainUrl, SshUrl, TokenUrl(TokLong)}, d \in {<<>>, DirtyTree} }
    /\ loop = "prompt"
    /\ cmd = NoCmd
    /\ issued = <<>>
    /\ out = <<>>
    /\ ret = RetNone

NextSelect == ChangeProject \/ Debug \/ Prompt \/ Quit

SpecSelect == InitSelect /\ [][NextSelect]_vars

-----------------------------------------------------------------------------
(* Settings changed between selections: config and cd in one session that  *)
(* starts with auto-fetch on.                                              *)

InitFetch ==
    /\ config \in {DefaultConfig, Put(DefaultConfig, "github_token", PyStr(Tok))}
    /\ persisted = [state |-> "ok", data |-> config]
    /\ current_repo = NoRepo
    /\ repos = SomeRepos
    /\ git = CleanGit
    /\ loop = "prompt"
    /\ cmd = NoCmd
    /\ issued = <<>>
    /\ out = <<>>
    /\ ret = RetNone

NextFetch == SetConfig \/ ChangeProject \/ Prompt

SpecFetch == InitFetch /\ [][NextFetch]_vars

-----------------------------------------------------------------------------
(* Projects coming and going: cd, clone and delete in one session.         *)

CloneUrls ==
    { <<"https://github.com/", "u/", "p2", ".git">>,
      <<"https://github.com/", "u/", "p1">>,
      <<"git", "@github.com", ":u/", "p2">> }

\* clone <url> [folder] (lines 1243-1246)
Clone ==
    /\ loop = "prompt"
    /\ \E url \in CloneUrls, folder_name \in {"", "p2", "junk"}, o \in CloneOutcomes,
          plan \in Plans(8) :
          \E s \in {Start} : \E t \in clone_project(s, url, folder_name, o, plan) :
             Finish("clone", <<url, folder_name>>, t)

\* delete <name> | rm <name> (lines 1292-1294)
Delete ==
    /\ loop = "prompt"
    /\ \E name \in {n \in TypedNames : Resolve(n) \in DOMAIN repos},
          confirm \in {<<"s">>, <<"Sim">>, <<"n">>, <<>>}, rm \in RemoveOutcomes :
          \E s \in {Start} : \E t \in delete_project(s, name, confirm, rm) :
             Finish("delete", <<name, confirm>>, t)

InitProjects ==
    /\ config \in {DefaultConfig, Put(DefaultConfig, "github_token", PyStr(Tok))}
    /\ persisted = [state |-> "ok", data |-> config]
    /\ current_repo = NoRepo
    /\ repos = SomeRepos @@ ("p2" :> "absent")
    /\ git = CleanGit
    /\ loop = "prompt"
    /\ cmd = NoCmd
    /\ issued = <<>>
    /\ out = <<>>
    /\ ret = RetNone

NextProjects == ChangeProject \/ Clone \/ Delete \/ Prompt

SpecProjects == InitProjects /\ [][NextProjects]_vars

-----------------------------------------------------------------------------
(* The analyzer on its own: analyze_changes against every working tree of  *)
(* up to MaxLines changed paths.                                           *)

MaxLines == 2

\* Changed paths with every kind of status code; the first piece of a path
\* is its first character.
EntryPool ==
    { Entry(" ", "M", <<"a", ".py">>, <<"fix">>),
      Entry("M", " ", <<"a", ".py">>, <<"fix">>),
      Entry("A", " ", <<"s", "rc/", "b", ".json">>, <<"add">>),
      Entry("A", "M", <<"c", ".css">>, <<"style">>),
      Entry("?", "?", <<"n", ".txt">>, <<>>),
      Entry(" ", "D", <<"q", ".sql">>, <<"bug">>),
      Entry("M", "D", <<"d", ".md">>, <<"README">>),
      Entry("R", " ", <<"o", ".py", " -> ", "p", ".py">>, <<"rename">>) }

RECURSIVE TreesUpTo(_)
\* the working trees with at most n changed paths
TreesUpTo(n) ==
    IF n = 0 THEN {<<>>}
    ELSE TreesUpTo(n - 1) \cup { Append(t, e) : t \in TreesUpTo(n - 1), e \in EntryPool }

\* a call of analyze_changes (lines 659, 713)
Analyze ==
    /\ loop = "prompt"
    /\ \E plan \in Plans(1) :
          \E s \in {Start} : \E t \in analyze_changes(s, 1, plan) : Finish("analyze", <<>>, t)

InitAnalyze ==
    /\ current_repo \in {NoRepo, "p1"}
    /\ config = DefaultConfig
    /\ persisted = NoFile
    /\ repos = SomeRepos
    /\ git \in { [CleanGit EXCEPT !.tree = t] : t \in TreesUpTo(MaxLines) }
    /\ loop = "prompt"
    /\ cmd = NoCmd
    /\ issued = <<>>
    /\ out = <<>>
    /\ ret = RetNone

\* a call of analyze_diff_content (line 586)
AnalyzeDiff ==
    /\ loop = "prompt"
    /\ \E plan \in Plans(2) :
          \E s \in {Start} : \E t \in analyze_diff_content(s, 1, plan) : Finish("classify", <<>>, t)

NextAnalyze == Analyze \/ AnalyzeDiff \/ Prompt

SpecAnalyze == InitAnalyze /\ [][NextAnalyze]_vars

-----------------------------------------------------------------------------
(* The generator on its own: the suggestions assembled from every change   *)
(* set and every score map of the bounded input sets.                      *)

MaxFiles == 2

\* how many status lines may have gone to no list
ExtraLines == 0..1

\* the files each list of a change set is drawn from; the first status
\* line may have lost its first character (line 461)
AddedFiles == << <<"a", ".py">>, <<"b", ".py">>, <<"h", ".html">> >>
ModifiedFiles == << <<".py">>, <<"c", ".css">>, <<"e", ".js">> >>
DeletedFiles == << <<"q", ".sql">>, <<"s", "rc/", "b", ".json">>, <<"d", ".md">> >>
RenamedFiles == << <<"o", ".py", " -> ", "p", ".py">>, <<"r", ".md", " -> ", "t", ".md">>,
                   <<"i", ".png", " -> ", "j", ".png">> >>

\* the values analyze_changes can hand to the generator: up to MaxFiles
\* files in each list, and the lines that went to no list
ChangeSets ==
    {NoChanges} \cup
    { ChangeSet(Take(AddedFiles, a), Take(ModifiedFiles, m), Take(DeletedFiles, d),
                Take(RenamedFiles, r),
                Len(Take(AddedFiles, a)) + Len(Take(ModifiedFiles, m))
                + Len(Take(DeletedFiles, d)) + Len(Take(RenamedFiles, r)) + x) :
        <<a, m, d, r, x>> \in
            { q \in (0..MaxFiles) \X (0..MaxFiles) \X (0..MaxFiles) \X (0..MaxFiles)
                    \X ExtraLines : q[1] + q[2] + q[3] + q[4] + q[5] > 0 } }

\* the counts a tag is given
ScoreValues == 1..4

\* the maps analyze_diff_content can return
ScoreMaps ==
    { [tag \in T |-> n] : <<T, n>> \in (SUBSET {Tags[i] : i \in 1..Len(Tags)}) \X ScoreValues }

\* generate_commit_suggestions about to be called: the arguments are in
\* cmd.opts
Called(ci, patterns) ==
    [name |-> "generate", args |-> <<>>,
     opts |-> [changes_info |-> ci, patterns |-> patterns],
     pre |-> [repo |-> "p1", cfg |-> DefaultConfig, file |-> NoFile, git |-> CleanGit]]

\* generate_commit_suggestions applied to a change set, the classifier
\* having returned patterns
Generate ==
    /\ loop = "prompt"
    /\ cmd.name = "generate"
    /\ ret' = Suggestions(cmd.opts.changes_info, cmd.opts.patterns)
    /\ loop' = "ran"
    /\ UNCHANGED <<current_repo, config, persisted, repos, git, cmd, issued, out>>

InitGenerate ==
    /\ current_repo = "p1"
    /\ config = DefaultConfig
    /\ persisted = NoFile
    /\ repos = SomeRepos
    /\ git = CleanGit
    /\ loop = "prompt"
    /\ cmd \in { Called(ci, patterns) : ci \in ChangeSets, patterns \in ScoreMaps }
    /\ issued = <<>>
    /\ out = <<>>
    /\ ret = RetNone

\* generate_commit_suggestions called once more with the same arguments
GenerateAgain ==
    /\ loop = "ran"
    /\ cmd.name = "generate"
    /\ ret' = Suggestions(cmd.opts.changes_info, cmd.opts.patterns)
    /\ loop' = "reran"
    /\ UNCHANGED <<current_repo, config, persisted, repos, git, cmd, issued, out>>

NextGenerate == Generate \/ GenerateAgain \/ Prompt

SpecGenerate == InitGenerate /\ [][NextGenerate]_vars

-----------------------------------------------------------------------------
(* The session of an operator who uses smart-status, smart-commit and      *)
(* auto-stage on a project whose identity is configured.                   *)

\* the working trees the session starts from
SmartTrees ==
    { <<>>,
      <<Entry(" ", "M", <<"a", ".py">>, <<"fix">>)>>,
      <<Entry("M", " ", <<"a", ".py">>, <<"fix", "bug", "error">>)>>,
      <<Entry("?", "?", <<"n", ".txt">>, <<>>)>>,
      <<Entry("?", "?", <<"e", ".log">>, <<>>)>>,
      <<Entry("?", "?", <<"n", ".txt">>, <<>>), Entry("?", "?", <<"e", ".log">>, <<>>)>>,
      <<Entry("A", " ", <<"s", "rc/", "b", ".json">>, <<"add">>),
        Entry(" ", "M", <<"c", ".css">>, <<"style">>)>> }

\* what the operator types after smart-commit
SmartArgs == {<<>>, <<"0">>, <<"1">>, <<"2">>, <<"9">>, <<"msg">>}

\* what the operator answers when asked to confirm and to choose
ConfirmInputs == {<<"S">>, <<"n">>}
ChoiceInputs == {<<"N">>, <<"1">>, <<"9">>, <<>>}

\* smart-status (lines 1251-1252)
SmartStatus ==
    /\ loop = "prompt"
    /\ \E plan \in Plans(3) :
          \E s \in {Start} : \E t \in smart_status(s, 1, plan) : Finish("smart-status", <<>>, t)

\* what the operator answers to smart-commit's question (line 744)
CommitAnswers == {<<"S">>, <<"sim">>, <<"n">>, <<>>}

\* smart-commit [number | message] (lines 1253-1262)
SmartCommit ==
    /\ loop = "prompt"
    /\ \E args \in SmartArgs, confirm \in CommitAnswers, plan \in Plans(10) :
          \E s \in {Start} :
          \E t \in smart_commit_command(s, args, confirm, <<>>, <<>>, "ok", plan) :
             Done("smart-commit", args, [confirm |-> confirm], t)

\* auto-stage (lines 1263-1264); a tree of SmartTrees has at most two files
\* to add, which makes 16 call sites
AutoStage ==
    /\ loop = "prompt"
    /\ \E choice \in ChoiceInputs, confirm \in ConfirmInputs, plan \in Plans(16) :
          \E s \in {Start} :
          \E t \in auto_stage_and_suggest(s, choice, confirm, <<>>, <<>>, "ok", plan) :
             Finish("auto-stage", <<choice, confirm>>, t)

InitSmart ==
    /\ current_repo \in {NoRepo, "p1"}
    /\ config = WithIdentity(DefaultConfig)
    /\ persisted = NoFile
    /\ repos = SomeRepos
    /\ git \in { [CleanGit EXCEPT !.tree = t] : t \in SmartTrees }
    /\ loop = "prompt"
    /\ cmd = NoCmd
    /\ issued = <<>>
    /\ out = <<>>
    /\ ret = RetNone

NextSmart == SmartStatus \/ SmartCommit \/ AutoStage \/ Prompt

SpecSmart == InitSmart /\ [][NextSmart]_vars

-----------------------------------------------------------------------------
(* The workflow advisory against the states of a repository.               *)

WorkflowTrees ==
    { <<>>,
      <<Entry("?", "?", <<"n", ".txt">>, <<>>)>>,
      <<Entry(" ", "M", <<"a", ".py">>, <<"fix">>)>>,
      <<Entry("M", " ", <<"a", ".py">>, <<"fix">>)>>,
      <<Entry("A", "M", <<"c", ".css">>, <<"style">>), Entry("?", "?", <<"n", ".txt">>, <<>>)>> }

\* workflow | wf (lines 1265-1266)
Workflow ==
    /\ loop = "prompt"
    /\ \E plan \in Plans(7) :
          \E s \in {Start} : \E t \in workflow_suggestions(s, plan) : Finish("workflow", <<>>, t)

InitWorkflow ==
    /\ current_repo \in {NoRepo, "p1"}
    /\ config \in {DefaultConfig, Put(DefaultConfig, "default_branch", PyStr(<<"dev">>))}
    /\ persisted = NoFile
    /\ repos = SomeRepos
    /\ git \in { [CleanGit EXCEPT !.branch = b, !.up = u, !.ahead = [@ EXCEPT !["main"] = a],
                                   !.tree = d, !.behind = n, !.incoming = m] :
                    b \in {"main", "dev", ""}, u \in {{}, {"main"}}, a \in 0..MaxCommits,
                    d \in WorkflowTrees, n \in 0..1, m \in 0..1 }
    /\ loop = "prompt"
    /\ cmd = NoCmd
    /\ issued = <<>>
    /\ out = <<>>
    /\ ret = RetNone

NextWorkflow == Workflow \/ Prompt

SpecWorkflow == InitWorkflow /\ [][NextWorkflow]_vars

-----------------------------------------------------------------------------
(* The executor on its own: run_git called with every argument list, in    *)
(* both modes, with and without a project, against every outcome.          *)

ArgLists == {<<"status">>, <<"fetch">>, <<"add", "a.py">>, <<"status", "--porcelain">>}

ExecOutcomes ==
    { Exit(c, so, se) : c \in {0, 1}, so \in {<<>>, <<"text">>}, se \in {<<>>, <<"warn">>} }
    \cup {TimedOut, SpawnError}

\* one call of run_git (lines 145-175)
RunGit ==
    /\ loop = "prompt"
    /\ \E args \in ArgLists, show_output \in BOOLEAN, return_output \in BOOLEAN,
          o \in ExecOutcomes :
          \E r \in {run_git(current_repo, args, show_output, return_output, o)} :
             /\ issued' = r.calls
             /\ out' = r.printed
             /\ ret' = r.ret
             /\ cmd' = [name |-> "run_git", args |-> args,
                        opts |-> [show_output |-> show_output,
                                  return_output |-> return_output],
                        pre |-> [repo |-> current_repo, cfg |-> config,
                                 file |-> persisted, git |-> git]]
    /\ loop' = "ran"
    /\ UNCHANGED <<current_repo, config, persisted, repos, git>>

InitExec ==
    /\ current_repo \in {NoRepo, "p1"}
    /\ config = DefaultConfig
    /\ persisted = NoFile
    /\ repos = SomeRepos
    /\ git = CleanGit
    /\ loop = "prompt"
    /\ cmd = NoCmd
    /\ issued = <<>>
    /\ out = <<>>
    /\ ret = RetNone

NextExec == RunGit \/ Prompt

SpecExec == InitExec /\ [][NextExec]_vars

-----------------------------------------------------------------------------
(* Properties.                                                             *)

\* the call of `issued` at position i ended in failure: a non-zero exit, a
\* timeout or a spawn error
Failed(i) == ~(issued[i].kind = "exit" /\ issued[i].code = 0)

IsPush(i) == issued[i].args[1] = "push"
IsPull(i) == issued[i].args[1] = "pull"

\* C1: in a sync run, whatever the backend does, a pull that fails is the
\* last backend call of the run (so no push follows it), the run ends with
\* the pull-failure report and prints none of the success reports.
C1_PullFailureStopsSync ==
    cmd.name = "sync" =>
        \A i \in 1..Len(issued) :
            (IsPull(i) /\ Failed(i)) =>
                /\ i = Len(issued)
                /\ \A j \in 1..Len(issued) : ~IsPush(j)
                /\ out[Len(out)] = <<"Pull falhou. Verifique conflitos.">>
                /\ \A k \in 1..Len(out) :
                      out[k] \notin {<<"Pull concluido!">>, <<"Push concluido!">>,
                                     <<"Push falhou. Verifique conexao e permissoes.">>,
                                     <<"Tudo sincronizado! Nenhum push necessario.">>}

\* a sync run whose pull exited with a non-zero code
C1_Witness ==
    /\ cmd.name = "sync"
    /\ Len(issued) = 2
    /\ IsPull(2) /\ issued[2].kind = "exit" /\ issued[2].code = 1

\* the branch a push command is about
PushedBranch == IF cmd.args[1] = "-" THEN cmd.pre.git.branch ELSE cmd.args[1]

\* call i is a query and got the answer git computes from the repository
AnsweredByGit(i) ==
    issued[i].args \in {ShowCurrent, LogRange(PushedBranch), <<"branch", "-vv">>} =>
        issued[i] = Call(issued[i].args, Normal(cmd.pre.git, issued[i].args))

\* C2 (as claimed): a push of a branch that has local commits to send and
\* no upstream link, with every query answered by git, issues the
\* upstream-set command for the branch and then, last, the push of it.
C2_UpstreamRepairedBeforePush ==
    (/\ cmd.name = "push"
     /\ cmd.pre.repo # NoRepo
     /\ PushedBranch \in Branches
     /\ PushedBranch \notin cmd.pre.git.up
     /\ cmd.pre.git.ahead[PushedBranch] > 0
     /\ \A i \in 1..Len(issued) : AnsweredByGit(i)) =>
        /\ Len(issued) >= 2
        /\ issued[Len(issued) - 1].args = SetUpstream(PushedBranch)
        /\ issued[Len(issued)].args = <<"push", "origin", PushedBranch>>

\* the branch checked out has an upstream and a commit that is not on it
HasUnpushed(g) == g.branch \in g.up /\ g.ahead[g.branch] > 0

\* C3 (as claimed): in a sync run whose pull succeeded, the push is issued
\* if and only if a local commit is absent from the branch's upstream, and
\* a run without push ends with the nothing-to-push report.
C3_PushIffUnpushed ==
    (cmd.name = "sync" /\ \E i \in 1..Len(issued) : IsPull(i) /\ ~Failed(i)) =>
        /\ (\E j \in 1..Len(issued) : IsPush(j)) <=> HasUnpushed(cmd.pre.git)
        /\ (\A j \in 1..Len(issued) : ~IsPush(j)) =>
              out[Len(out)] = <<"Tudo sincronizado! Nenhum push necessario.">>

\* C4: a run_git call made with no project selected returns None, spawns
\* no process and prints the no-project message, whatever the arguments and
\* the mode.
C4_NoProjectNoSpawn ==
    (cmd.name = "run_git" /\ cmd.pre.repo = NoRepo) =>
        /\ ret = RetNone
        /\ issued = <<>>
        /\ out = <<MsgNoProject>>

\* run_git called in capture mode with no project selected
C4_Witness ==
    /\ cmd.name = "run_git"
    /\ cmd.pre.repo = NoRepo
    /\ cmd.opts.return_output
    /\ ret = RetNone

\* C6 (as claimed): no command ends main's loop with an unhandled fault.
C6_NoUnhandledFault == loop # "crashed"

\* the whole output of a select that found no repository under the name
NotFound(name) ==
    <<<<"Projeto nao encontrado. Use 'list' para ver projetos disponiveis.", name>>>>

\* C5: a cd whose target does not exist or has no .git directory prints
\* project-not-found and nothing else, leaves the selected project as it
\* was before the command, and issues no backend command.
C5_FailedSelectChangesNothing ==
    (cmd.name = "cd" /\ cmd.args[1] # ".." /\ repos[Resolve(cmd.args[1])] # "repo") =>
        /\ current_repo = cmd.pre.repo
        /\ issued = <<>>
        /\ out = NotFound(cmd.args[1])

\* with p1 selected, cd to a directory that has no .git was refused
C5_Witness ==
    /\ cmd.name = "cd"
    /\ cmd.args = <<"junk">>
    /\ cmd.pre.repo = "p1"
    /\ current_repo = "p1"
    /\ out = NotFound("junk")

\* a cd that found its target repository
Selected == cmd.name = "cd" /\ cmd.args[1] # ".." /\ repos[Resolve(cmd.args[1])] = "repo"

IsCredential(i) == issued[i].args[1] \in {"config", "remote"}
IsFetch(i) == issued[i].args = <<"fetch">>

\* the three queries of the abbreviated status are the last calls issued
StatusLast ==
    /\ Len(issued) >= 3
    /\ issued[Len(issued) - 2].args = ShowCurrent
    /\ issued[Len(issued) - 1].args = <<"status", "--porcelain">>
    /\ issued[Len(issued)].args = <<"status", "-uno">>

\* C22: a cd that finds its target records the selection first; then, only
\* when a token is configured, come the credential and remote-URL commands;
\* then, only when auto-fetch is enabled, exactly one fetch; then the
\* abbreviated status queries.  Whatever the fetch returned, the project
\* stays selected and the status queries are issued.
C22_SelectOrder ==
    Selected =>
        /\ current_repo = cmd.args[1]
        /\ out[1] = <<"Projeto selecionado.", cmd.args[1]>>
        /\ StatusLast
        /\ \A i \in 1..(Len(issued) - 3) : IsCredential(i) \/ IsFetch(i)
        /\ \A i, j \in 1..(Len(issued) - 3) : (IsCredential(i) /\ IsFetch(j)) => i < j
        /\ IF Truthy(Get(cmd.pre.cfg, "github_token"))
           THEN /\ Len(issued) >= 6
                /\ issued[1].args = <<"config", "--unset", "credential.helper">>
                /\ issued[2].args = <<"config", "--unset", "credential.https://github.com.username">>
                /\ issued[3].args = <<"remote", "get-url", "origin">>
           ELSE \A i \in 1..Len(issued) : ~IsCredential(i)
        /\ Cardinality({i \in 1..Len(issued) : IsFetch(i)})
              = (IF Truthy(Get(cmd.pre.cfg, "auto_fetch")) THEN 1 ELSE 0)

\* with a token configured and auto-fetch on, the fetch timed out after the
\* remote URL was rewritten; p1 is selected and the status queries ran
C22_Witness ==
    /\ Selected
    /\ Truthy(Get(cmd.pre.cfg, "github_token"))
    /\ Len(issued) = 8
    /\ issued[4].args[2] = "set-url"
    /\ IsFetch(5)
    /\ issued[5].kind = "timeout"
    /\ current_repo = "p1"
    /\ StatusLast

\* the workflow command ran on a selected project
Advised == cmd.name = "workflow" /\ cmd.pre.repo # NoRepo

\* what an advisory line is about
Kind(line) ==
    IF line[3] = "Voce esta na branch '" THEN "branch"
    ELSE IF line[3] = "Tudo limpo! Pronto para trabalhar." THEN "clean"
    ELSE IF line[4] = " arquivo(s) nao rastreado(s) - considere 'auto-stage'" THEN "untracked"
    ELSE IF line[4] = " arquivo(s) modificado(s) - use 'smart-status' ou 'auto-stage'"
    THEN "unstaged"
    ELSE IF line[4] = " arquivo(s) preparado(s) - pronto para 'smart-commit'" THEN "staged"
    ELSE IF line[4] = " commit(s) nao enviado(s) - considere 'push'" THEN "unpushed"
    ELSE "unpulled"

\* the advisories displayed, in the order displayed: the lines between the
\* heading and the five lines about commands
Shown ==
    LET h == CHOOSE k \in 1..Len(out) : out[k] = <<"Sugestoes de proximos passos:">>
    IN [i \in 1..(Len(out) - 5 - h) |-> Kind(out[h + i])]

When(cond, kind) == IF cond THEN <<kind>> ELSE <<>>

\* the conditions that hold in the repository the command ran on, in the
\* order named; the remote commits are those on the upstream branch after
\* the command's fetch
Holding ==
    When(Len(Untracked(cmd.pre.git.tree)) > 0, "untracked")
    \o When(Len(Unstaged(cmd.pre.git.tree)) > 0, "unstaged")
    \o When(Len(Staged(cmd.pre.git.tree)) > 0, "staged")
    \o When(cmd.pre.git.branch \in cmd.pre.git.up
              /\ cmd.pre.git.ahead[cmd.pre.git.branch] > 0, "unpushed")
    \o When(<<cmd.pre.git.branch>> # DefaultBranch(cmd.pre.cfg), "branch")
    \o When(git.branch \in git.up /\ git.behind > 0, "unpulled")

\* C21 (as claimed): the workflow command displays one advisory for each
\* condition that holds among untracked files, unstaged files, staged
\* files, unpushed commits, a current branch other than the default branch
\* and unpulled commits after a fetch, in that order; it displays the
\* 'clean' advisory exactly when none holds, and then alone.
C21_AdvisoriesMatchConditions ==
    Advised => Shown = (IF Holding = <<>> THEN <<"clean">> ELSE Holding)

\* the directory of the selected project is a repository
SelectionExists == current_repo = NoRepo \/ repos[Resolve(current_repo)] = "repo"

\* the delete command removed the directory it was given
Removed ==
    /\ cmd.name = "delete"
    /\ \E k \in 1..Len(out) : out[k][1] = "Projeto excluido com sucesso!"

\* the clone command got its repository
CloneDone ==
    /\ cmd.name = "clone"
    /\ \E k \in 1..Len(out) : out[k][1] = "Clone concluido! Pasta: "

\* C29 (as claimed): through any sequence of cd, cd .., clone and delete
\* the selected project is none or the path of a repository directory that
\* exists: deleting the selected project clears the selection, deleting
\* another project leaves it, a clone that succeeded selects the cloned
\* project, a clone that was refused or failed leaves it as it was.
C29_SelectionNeverDangles ==
    /\ SelectionExists
    /\ (Removed /\ Resolve(cmd.args[1]) = Resolve(cmd.pre.repo)) => current_repo = NoRepo
    /\ (cmd.name = "delete" /\ Resolve(cmd.args[1]) # Resolve(cmd.pre.repo)) =>
           current_repo = cmd.pre.repo
    /\ CloneDone => \E k \in 1..Len(out) : out[k] = <<"Projeto selecionado.", current_repo>>
    /\ (cmd.name = "clone" /\ ~CloneDone) => current_repo = cmd.pre.repo

\* C7 (as claimed): while a token is configured, no line displayed holds
\* the token in full.
C7_TokenNeverShownInFull ==
    Truthy(Get(config, "github_token")) =>
        \A k \in 1..Len(out) : ~Contains(out[k], config["github_token"].s)

\* the six keys named as the recognized configuration keys
RecognizedKeys ==
    {"github_token", "default_branch", "auto_fetch", "editor", "user.name", "user.email"}

\* the whole output of a config set that was refused
Rejected ==
    /\ Len(out) = 1
    /\ out[1][1] = "Configuracao nao existe. Use 'config' para ver opcoes disponiveis."

\* C8 (as claimed): config set with a key outside the six recognized keys
\* is refused and leaves the store in memory and the file as they were.
C8_UnknownKeyChangesNothing ==
    (cmd.name = "config" /\ Len(cmd.args) > 0 /\ cmd.args[1] \notin RecognizedKeys) =>
        /\ Rejected
        /\ config = cmd.pre.cfg
        /\ persisted = cmd.pre.file

\* C9 (as claimed): in every state config set accepts a key exactly when
\* it is one of the six recognized keys.
C9_AcceptedKeysAreTheSix ==
    (cmd.name = "config" /\ Len(cmd.args) > 0) =>
        (~Rejected <=> cmd.args[1] \in RecognizedKeys)

\* the tokens named as those that turn a flag on
StatedTruthy == {<<"true">>, <<"1">>, <<"yes">>, <<"sim">>}

\* a config set that was accepted
SettingStored == cmd.name = "config" /\ Len(cmd.args) > 1 /\ ~Rejected

\* the number of fetches the command issued
Fetches == Cardinality({i \in 1..Len(issued) : issued[i].args = <<"fetch">>})

\* C23: a config set of auto_fetch stores true exactly when the token, in
\* lower case, is one of true, 1, yes, sim, and a config set of another key
\* stores the string as given; only such a config set changes the flag; a
\* cd that finds its target issues exactly one fetch when the flag is on
\* and none when it is off.  So after auto_fetch was set to a token outside
\* the set every later cd that succeeds issues no fetch, and after it was
\* set to one of the set exactly one.
C23_FetchFollowsTheStoredFlag ==
    /\ [](SettingStored =>
            config[cmd.args[1]] =
                IF cmd.args[1] = "auto_fetch"
                THEN PyBool(Lower(Tail(cmd.args)) \in StatedTruthy)
                ELSE PyStr(Tail(cmd.args)))
    /\ [](Selected => Fetches = (IF cmd.pre.cfg["auto_fetch"] = PyBool(TRUE) THEN 1 ELSE 0))
    /\ [][config'["auto_fetch"] # config["auto_fetch"] =>
             (cmd'.name = "config" /\ cmd'.args[1] = "auto_fetch")]_vars
    /\ [](config["auto_fetch"] \in {PyBool(TRUE), PyBool(FALSE)})

\* in a session that started with auto-fetch on, p1 was selected without a
\* fetch: an earlier config set had turned the flag off
C23_Witness ==
    /\ Selected
    /\ current_repo = "p1"
    /\ cmd.pre.cfg["auto_fetch"] = PyBool(FALSE)
    /\ Fetches = 0
    /\ Len(issued) >= 3

\* the command changed the store in memory
Mutated ==
    \/ config # cmd.pre.cfg
    \/ cmd.name = "login"
    \/ cmd.name = "config" /\ Len(cmd.args) > 0 /\ ~Rejected

WriteSucceeded == \A k \in 1..Len(out) : out[k] # <<"Erro ao salvar configuracoes">>

\* C10: when a config set, a login or a commit that asked for the identity
\* has changed the store and its write succeeded, the file holds the store
\* as it is in memory once the loop is back from the command.
C10_MutationFlushed ==
    (loop = "ran" /\ cmd.name \in {"config", "login", "commit"} /\ Mutated /\ WriteSucceeded) =>
        persisted = [state |-> "ok", data |-> config]

\* a commit stored the identity typed by the operator and wrote the file
C10_Witness ==
    /\ loop = "ran"
    /\ cmd.name = "commit"
    /\ config # cmd.pre.cfg
    /\ config["user.name"] = PyStr(<<"ana">>)
    /\ persisted # cmd.pre.file
    /\ persisted = [state |-> "ok", data |-> config]

\* call i is a porcelain status query that reported pending modifications
PendingReported(i) ==
    /\ issued[i].args = <<"status", "--porcelain">>
    /\ issued[i].kind = "exit"
    /\ Len(Strip(issued[i].stdout)) > 0

\* C19: a merge whose porcelain status query reported pending
\* modifications, whatever the queries before it returned, issues neither a
\* checkout nor a merge command, ends with the pending-changes message and
\* leaves the session loop running.
C19_PendingChangesStopMerge ==
    (cmd.name = "merge" /\ \E i \in 1..Len(issued) : PendingReported(i)) =>
        /\ \A j \in 1..Len(issued) : issued[j].args[1] \notin {"checkout", "merge"}
        /\ PendingReported(Len(issued))
        /\ out[Len(out)] = <<"Existem mudancas pendentes. Faca commit ou stash antes do merge.">>
        /\ loop = "ran"

\* a merge into the current branch, refused on a modified working tree
C19_Witness ==
    /\ cmd.name = "merge"
    /\ cmd.args[2] = "-"
    /\ cmd.pre.git.tree = DirtyTree
    /\ Len(issued) = 2
    /\ issued[1].args = ShowCurrent
    /\ PendingReported(2)
    /\ loop = "ran"

\* the status query of an analysis was answered with a non-empty listing
StatusListed ==
    /\ Len(issued) > 0
    /\ issued[1] = Call(<<"status", "--porcelain">>, Exit(0, Porcelain(cmd.pre.git.tree), <<>>))
    /\ Len(cmd.pre.git.tree) > 0

\* the paths of the status lines of tree whose code selects list c
PathsOf(tree, c) ==
    [i \in 1..Len(SelectSeq(tree, LAMBDA e : Category(<<e.x, e.y>>) = c)) |->
        SelectSeq(tree, LAMBDA e : Category(<<e.x, e.y>>) = c)[i].path]

\* C11 (as claimed): analyze puts the path of every status line in the
\* list its code selects by the first match in the order A, M, D, R and in
\* no other list, leaves out the lines whose code has none of the letters,
\* and counts every line in total.
C11_ListsPartitionTheLines ==
    (cmd.name = "analyze" /\ StatusListed) =>
        ret = ChangeSet(PathsOf(cmd.pre.git.tree, "added"), PathsOf(cmd.pre.git.tree, "modified"),
                        PathsOf(cmd.pre.git.tree, "deleted"), PathsOf(cmd.pre.git.tree, "renamed"),
                        Len(cmd.pre.git.tree))

\* the paths of the status lines of tree, the code and the separator left out
LinePaths(tree) == {tree[i].path : i \in 1..Len(tree)}

\* the paths analyze recorded in its four lists
Recorded ==
    {ret.added[i] : i \in 1..Len(ret.added)} \cup {ret.modified[i] : i \in 1..Len(ret.modified)}
    \cup {ret.deleted[i] : i \in 1..Len(ret.deleted)}
    \cup {ret.renamed[i] : i \in 1..Len(ret.renamed)}

\* C31 (as claimed): for every status line, the first line and the lines
\* whose code starts with a space included, the path analyze records is the
\* text of the line after the two-character code and the separator, the
\* code it classifies is the line's first two characters, and the files
\* auto-stage adds are named by the same text.
C31_PathIsTheLineAfterTheCode ==
    /\ (cmd.name = "analyze" /\ StatusListed) =>
           /\ Recorded \subseteq LinePaths(cmd.pre.git.tree)
           /\ \A i \in 1..Len(cmd.pre.git.tree) :
                 Category(<<cmd.pre.git.tree[i].x, cmd.pre.git.tree[i].y>>) # "none" =>
                     cmd.pre.git.tree[i].path \in Recorded
    /\ (cmd.name = "auto-stage" /\ StatusListed) =>
           \A k \in 1..Len(issued) :
               (issued[k].args[1] = "add" /\ issued[k].args # <<"add", ".">>) =>
                   Tail(issued[k].args) \in LinePaths(cmd.pre.git.tree)

\* every call of the command got the answer git computes from the
\* repository as it was before the command
AllAnsweredByGit ==
    \A i \in 1..Len(issued) :
        issued[i] = Call(issued[i].args, Normal(cmd.pre.git, issued[i].args))

\* C18 (as claimed): with git answering, the classifier returns the scores
\* of the staged diff when that is not empty, else the scores of the
\* working-tree diff when that is not empty, else the empty score map.
C18_StagedElseWorkingTreeDiff ==
    (cmd.name = "classify" /\ cmd.pre.repo # NoRepo /\ AllAnsweredByGit) =>
        ret = IF Len(DiffText(Staged(cmd.pre.git.tree))) > 0
              THEN Scores(Classify(DiffText(Staged(cmd.pre.git.tree))))
              ELSE IF Len(DiffText(Unstaged(cmd.pre.git.tree))) > 0
              THEN Scores(Classify(DiffText(Unstaged(cmd.pre.git.tree))))
              ELSE NoScores

\* the rule (1..13) a suggestion comes from, read off its opening words
RuleOf(text) ==
    CASE text[1] \in {"Fix: Corrige bugs encontrados",
                      "Bugfix: Resolve problemas identificados"} -> 1
      [] text[1] \in {"Feat: Adiciona nova funcionalidade",
                      "Feature: Implementa nova feature"} -> 2
      [] text[1] \in {"Refactor: Reestrutura codigo",
                      "Refactor: Melhora estrutura do codigo"} -> 3
      [] text[1] \in {"Test: Adiciona/atualiza testes",
                      "Tests: Melhora cobertura de testes"} -> 4
      [] text[1] \in {"Docs: Atualiza documentacao",
                      "Documentation: Melhora docs do projeto"} -> 5
      [] text[1] \in {"Style: Ajustes de formatacao e estilo", "UI: Melhorias visuais"} -> 6
      [] text[1] = "Config: Atualiza configuracoes" -> 7
      [] text[1] = "Database: Atualiza esquemas/queries" -> 8
      [] text[1] \in {"UI: Atualiza interface do usuario",
                      "Frontend: Melhorias no frontend"} -> 9
      [] text[1] = "Add: Adiciona " -> 10
      [] text[1] = "Remove: Remove " -> 11
      [] text[1] = "Rename: Reorganiza " -> 12
      [] OTHER -> 13

Generated == cmd.name = "generate" /\ loop = "ran"

\* C13: whatever the change set and the scores, the generator returns at
\* most 8 suggestions and no suggestion twice.
C13_AtMostEightNoRepeats ==
    Generated =>
        /\ Len(ret.list) <= 8
        /\ \A i, j \in 1..Len(ret.list) : ret.list[i] = ret.list[j] => i = j

\* more than 8 suggestions were assembled and 8 were returned
C13_Witness == Generated /\ Len(ret.assembled) > 8 /\ Len(ret.list) = 8

\* the first place of a string in a list (0 when it is not there)
FirstIndex(list, text) ==
    IF \E i \in 1..Len(list) : list[i] = text
    THEN CHOOSE i \in 1..Len(list) :
            list[i] = text /\ \A j \in 1..(i - 1) : list[j] # text
    ELSE 0

\* C14: the suggestions returned are the first 8 of the rules' strings,
\* rules 1 to 13 in order, each string kept at its first place: they come
\* in rule order and in the order assembled, and a string is left out only
\* when 8 different strings come before it.
C14_FirstEightInRuleOrder ==
    Generated =>
        /\ \A i, j \in 1..Len(ret.assembled) :
              i < j => RuleOf(ret.assembled[i]) <= RuleOf(ret.assembled[j])
        /\ \A i, j \in 1..Len(ret.list) :
              i < j => /\ RuleOf(ret.list[i]) <= RuleOf(ret.list[j])
                       /\ 0 < FirstIndex(ret.assembled, ret.list[i])
                       /\ FirstIndex(ret.assembled, ret.list[i])
                            < FirstIndex(ret.assembled, ret.list[j])
        /\ \A i \in 1..Len(ret.list) : FirstIndex(ret.assembled, ret.list[i]) > 0
        /\ \A k \in 1..Len(ret.assembled) :
              \/ FirstIndex(ret.list, ret.assembled[k]) > 0
              \/ Cardinality({ret.assembled[j] : j \in 1..(k - 1)}) >= 8

\* strings of rules 1 to 6 were cut and strings of later rules never got in
C14_Witness ==
    /\ Generated
    /\ Len(ret.list) = 8
    /\ \E k \in 1..Len(ret.assembled) :
          RuleOf(ret.assembled[k]) = 13 /\ FirstIndex(ret.list, ret.assembled[k]) = 0
    /\ \E i \in 1..Len(ret.list) : RuleOf(ret.list[i]) = 1

\* the thresholds the specification gives the six tags
StatedThreshold ==
    [bug_fixes |-> 2, features |-> 3, refactoring |-> 1, tests |-> 2, docs |-> 1, style |-> 2]

\* how many of the strings of a list come from rule k
FromRule(list, k) == Cardinality({i \in 1..Len(list) : RuleOf(list[i]) = k})

\* C15: a tag adds its two suggestions exactly when its score is above its
\* threshold (2, 3, 1, 2, 1, 2); the map {bug_fixes: 3} gives exactly two
\* fix suggestions, both ahead of any volume suggestion, and the empty map gives
\* no fix and no feature suggestion.
C15_TagsFireAboveThreshold ==
    (Generated /\ cmd.opts.changes_info.t = "changes") =>
        /\ \A k \in 1..6 :
              FromRule(ret.assembled, k) =
                  IF Tags[k] \in DOMAIN cmd.opts.patterns
                     /\ cmd.opts.patterns[Tags[k]] > StatedThreshold[Tags[k]]
                  THEN 2 ELSE 0
        /\ (DOMAIN cmd.opts.patterns = {"bug_fixes"} /\ cmd.opts.patterns["bug_fixes"] = 3) =>
              /\ FromRule(ret.list, 1) = 2
              /\ \A i, j \in 1..Len(ret.list) :
                    (RuleOf(ret.list[i]) = 1 /\ RuleOf(ret.list[j]) = 13) => i < j
        /\ DOMAIN cmd.opts.patterns = {} =>
              FromRule(ret.list, 1) = 0 /\ FromRule(ret.list, 2) = 0

\* a score at its threshold added nothing while a score above it added two
C15_Witness ==
    /\ Generated /\ cmd.opts.changes_info.t = "changes"
    /\ DOMAIN cmd.opts.patterns = {"bug_fixes", "features"}
    /\ cmd.opts.patterns["features"] = 3
    /\ FromRule(ret.list, 1) = 2
    /\ FromRule(ret.list, 2) = 0
    /\ FromRule(ret.list, 13) = 1

\* C17: the suggestion that files were added is made exactly when more
\* files were added than modified and deleted together, and it names the
\* number of added files; two added files and no scores give "adds 2
\* files" and the small-update suggestion, and no fix or feature suggestion.
C17_AddsWhenAdditionsDominate ==
    (Generated /\ cmd.opts.changes_info.t = "changes") =>
        /\ FromRule(ret.assembled, 10) =
              IF Len(cmd.opts.changes_info.added)
                   > Len(cmd.opts.changes_info.modified) + Len(cmd.opts.changes_info.deleted)
              THEN 1 ELSE 0
        /\ \A i \in 1..Len(ret.assembled) :
              RuleOf(ret.assembled[i]) = 10 =>
                  ret.assembled[i] =
                      <<"Add: Adiciona ", ToString(Len(cmd.opts.changes_info.added)),
                        " novos arquivos">>
        /\ (/\ Len(cmd.opts.changes_info.added) = 2
            /\ cmd.opts.changes_info.total = 2
            /\ DOMAIN cmd.opts.patterns = {}) =>
              /\ FirstIndex(ret.list, <<"Add: Adiciona ", "2", " novos arquivos">>) > 0
              /\ FirstIndex(ret.list, <<"Update: Pequenas atualizacoes (", "2", " arquivos)">>) > 0
              /\ FromRule(ret.list, 1) = 0 /\ FromRule(ret.list, 2) = 0

\* two files added, nothing else, no scores
C17_Witness ==
    /\ Generated
    /\ cmd.opts.changes_info.t = "changes"
    /\ Len(cmd.opts.changes_info.added) = 2
    /\ cmd.opts.changes_info.total = 2
    /\ DOMAIN cmd.opts.patterns = {}
    /\ FirstIndex(ret.list, <<"Add: Adiciona ", "2", " novos arquivos">>) > 0

\* call i is a porcelain status query whose output was empty
EmptyStatus(i) ==
    /\ issued[i].args = <<"status", "--porcelain">>
    /\ issued[i].kind = "exit"
    /\ Len(Strip(issued[i].stdout)) = 0

\* C12: in smart-status, smart-commit without a message and auto-stage, a
\* status query that comes back empty makes the analysis report that
\* nothing changed and is the last thing the command does with the
\* backend: no classifier query (the generator starts with one), no
\* staging and no commit command follows, nothing but the report is
\* printed after it, and the session goes on.  When the status output is
\* empty from the start of the command, the status query is its only call.
C12_EmptyStatusEndsTheCommand ==
    (cmd.name \in {"smart-status", "smart-commit", "auto-stage"}) =>
        /\ \A i \in 1..Len(issued) :
              EmptyStatus(i) =>
                  /\ i = Len(issued)
                  /\ \E k \in 1..Len(out) : out[k] = <<"Nenhuma mudanca detectada!">>
                  /\ out[Len(out)] \in {<<"Nenhuma mudanca detectada!">>,
                                        <<"Nenhuma mudanca para commit!">>}
                  /\ ret.t # "suggestions"
                  /\ loop = "ran"
        /\ (Len(issued) > 0 /\ EmptyStatus(1)) =>
              \A j \in 1..Len(issued) : issued[j].args[1] \notin {"diff", "add", "commit"}

\* smart-commit 1 on a clean working tree
C12_Witness ==
    /\ cmd.name = "smart-commit"
    /\ cmd.args = <<"1">>
    /\ cmd.pre.git.tree = <<>>
    /\ Len(issued) = 1
    /\ EmptyStatus(1)
    /\ out[Len(out)] = <<"Nenhuma mudanca para commit!">>

\* the volume suggestion the specification gives a working tree
StatedVolume(tree) ==
    IF Len(tree) = 1 THEN <<"Update: Atualiza ">> \o BaseName(tree[1].path)
    ELSE IF Len(tree) <= 3
    THEN <<"Update: Pequenas atualizacoes (", ToString(Len(tree)), " arquivos)">>
    ELSE <<"Major: Grandes mudancas (", ToString(Len(tree)), " arquivos)">>

\* C16 (as claimed): with git answering, smart-status on a working tree
\* with changes assembles exactly one volume suggestion: for one status
\* line it names the file of that line, for two or three lines it is the
\* small-update wording with the number of lines, for more the
\* large-change wording with the number of lines.
C16_VolumeSuggestionByTotal ==
    (/\ cmd.name = "smart-status"
     /\ cmd.pre.repo # NoRepo
     /\ Len(cmd.pre.git.tree) > 0
     /\ AllAnsweredByGit) =>
        /\ ret.t = "suggestions"
        /\ FromRule(ret.assembled, 13) = 1
        /\ \E i \in 1..Len(ret.assembled) : ret.assembled[i] = StatedVolume(cmd.pre.git.tree)

\* an ordinal was typed after smart-commit
OrdinalGiven ==
    /\ cmd.name = "smart-commit"
    /\ Len(cmd.args) = 1
    /\ cmd.args[1] \in {ToString(n) : n \in 0..9}

\* the status query and the staged-diff query of the command got the
\* answers git computes from the repository
AnalysisAnsweredByGit ==
    /\ Len(issued) >= 2
    /\ issued[1] = Call(<<"status", "--porcelain">>,
                        Normal(cmd.pre.git, <<"status", "--porcelain">>))
    /\ issued[2] = Call(<<"diff", "--cached">>, Normal(cmd.pre.git, <<"diff", "--cached">>))

\* the suggestions generated for a working tree when git answers
GeneratedFor(tree) ==
    Suggest(Categorize(SplitLines(Strip(Porcelain(tree)))),
            IF Len(DiffText(Staged(tree))) > 0 THEN Classify(DiffText(Staged(tree))) ELSE <<>>)

\* the ordinal typed is 0, or more than the 8 suggestions there can be, or
\* more than the suggestions generated for the working tree
OrdinalOutside ==
    /\ OrdinalGiven
    /\ \/ cmd.args[1] = "0"
       \/ cmd.args[1] = "9"
       \/ /\ AnalysisAnsweredByGit
          /\ Len(cmd.pre.git.tree) > 0
          /\ \A k \in 1..Len(GeneratedFor(cmd.pre.git.tree)) : ToString(k) # cmd.args[1]

\* C20: smart-commit with an ordinal outside 1..n, n the number of
\* suggestions generated, issues no staging and no commit command,
\* whatever the backend does, and the session goes on.
C20_InvalidOrdinalCommitsNothing ==
    OrdinalOutside =>
        /\ \A j \in 1..Len(issued) : issued[j].args[1] \notin {"add", "commit"}
        /\ loop = "ran"

\* smart-commit 2 when one suggestion was generated
C20_Witness ==
    /\ OrdinalGiven
    /\ cmd.args[1] = "2"
    /\ cmd.pre.git.tree = <<Entry(" ", "M", <<"a", ".py">>, <<"fix">>)>>
    /\ AnalysisAnsweredByGit
    /\ Len(issued) = 2
    /\ out[Len(out)] = <<"Numero invalido. Use 1-", "1">>
    /\ loop = "ran"

\* one run_git call was made with a project selected
Executed == cmd.name = "run_git" /\ cmd.pre.repo # NoRepo /\ Len(issued) = 1

\* C25: a backend call that times out or cannot be spawned makes run_git
\* print the failure report of its kind and return False, not a result
\* object, in status mode and in capture mode alike; run_git issues no
\* other backend command and leaves the repository as the backend left it.
C25_FaultReportedNoResult ==
    (Executed /\ issued[1].kind \in {"timeout", "spawnerr"}) =>
        /\ ret = RetBool(FALSE)
        /\ ret.t # "result"
        /\ out = <<IF issued[1].kind = "timeout" THEN MsgTimeout ELSE MsgExecError>>
        /\ issued = <<Call(cmd.args, IF issued[1].kind = "timeout" THEN TimedOut ELSE SpawnError)>>
        /\ git = cmd.pre.git
        /\ current_repo = cmd.pre.repo

\* a call in capture mode that ran into the timeout
C25_Witness ==
    /\ Executed
    /\ cmd.opts.return_output
    /\ issued[1].kind = "timeout"
    /\ ret = RetBool(FALSE)
    /\ out = <<MsgTimeout>>

\* C26: in status mode run_git returns True exactly when the process exited
\* with code 0, whatever it wrote to stderr.
C26_SuccessIsExitCodeZero ==
    (Executed /\ ~cmd.opts.return_output /\ issued[1].kind = "exit") =>
        /\ ret \in {RetBool(TRUE), RetBool(FALSE)}
        /\ (ret = RetBool(TRUE)) <=> (issued[1].code = 0)

\* exit code 0 with a warning on stderr, shown to the operator: success
C26_Witness ==
    /\ Executed
    /\ ~cmd.opts.return_output
    /\ cmd.opts.show_output
    /\ issued[1].kind = "exit"
    /\ issued[1].code = 0
    /\ Len(issued[1].stderr) > 0
    /\ ret = RetBool(TRUE)
    /\ \E k \in 1..Len(out) : out[k] = <<"! ">> \o issued[1].stderr

\* C24: sync is run without an argument; its first backend call asks for
\* the branch checked out, and the pull and the push it issues both name
\* the branch that call reported, whatever the backend does.
C24_SyncNamesTheCurrentBranch ==
    (cmd.name = "sync" /\ Len(issued) > 0) =>
        /\ cmd.args = <<>>
        /\ issued[1].args = ShowCurrent
        /\ \A i \in 1..Len(issued) :
              (IsPull(i) \/ IsPush(i)) =>
                  /\ i > 1
                  /\ issued[1].kind = "exit"
                  /\ issued[i].args = <<issued[i].args[1], "origin", Text(issued[1].stdout)>>

\* a sync on branch dev that pulled and pushed dev
C24_Witness ==
    /\ cmd.name = "sync"
    /\ cmd.pre.git.branch = "dev"
    /\ Len(issued) = 4
    /\ issued[1] = Call(ShowCurrent, Exit(0, <<"dev">>, <<>>))
    /\ issued[2].args = <<"pull", "origin", "dev">>
    /\ issued[4].args = <<"push", "origin", "dev">>

\* the branch query of the command failed, timed out or named no branch
BranchUnknown ==
    \/ issued[1].kind # "exit"
    \/ issued[1].code # 0
    \/ Len(Strip(issued[1].stdout)) = 0

\* C32 (as claimed): a sync whose branch query fails, times out or reports
\* an empty branch name issues neither pull nor push, and no sync issues a
\* pull or a push that names an empty branch.
C32_NoSyncOfAnUnknownBranch ==
    (cmd.name = "sync" /\ Len(issued) > 0) =>
        /\ BranchUnknown => \A i \in 1..Len(issued) : ~(IsPull(i) \/ IsPush(i))
        /\ \A i \in 1..Len(issued) : (IsPull(i) \/ IsPush(i)) => issued[i].args[3] # ""

IsCommit(i) == issued[i].args[1] = "commit"

\* C30: a commit run issues the commit command only after the stage-all
\* command, issued first, succeeded, with a name and an e-mail in the
\* configuration, and after the two repository-local identity commands
\* carrying them, in that order; when staging fails, or the identity is
\* missing and the operator leaves the name or the e-mail blank, the run
\* issues no commit command.
C30_CommitAfterStagingAndIdentity ==
    (cmd.name = "commit") =>
        /\ \A i \in 1..Len(issued) :
              IsCommit(i) =>
                  /\ i >= 4
                  /\ issued[1].args = <<"add", ".">>
                  /\ ~Failed(1)
                  /\ ~IdentityMissing(config)
                  /\ issued[2].args = <<"config", "--local", "user.name",
                                         Text(config["user.name"].s)>>
                  /\ issued[3].args = <<"config", "--local", "user.email",
                                         Text(config["user.email"].s)>>
                  /\ \A j \in 1..Len(issued) : IsCommit(j) => j = i
        /\ (Len(issued) > 0 /\ Failed(1)) => Len(issued) = 1
        /\ (\E k \in 1..Len(out) :
               out[k] = <<"Nome e e-mail sao obrigatorios para fazer commits.">>) =>
              /\ \A i \in 1..Len(issued) : ~IsCommit(i)
              /\ config = cmd.pre.cfg

\* the identity was missing, the operator typed it, and the commit was made
C30_Witness ==
    /\ cmd.name = "commit"
    /\ IdentityMissing(cmd.pre.cfg)
    /\ ~IdentityMissing(config)
    /\ Len(issued) >= 4
    /\ IsCommit(Len(issued))
    /\ ~Failed(Len(issued))
    /\ issued[2].args = <<"config", "--local", "user.name", "ana">>

BySuggestion ==
    /\ cmd.name = "smart-commit"
    /\ (cmd.args = <<>> \/ OrdinalGiven)

\* the operator's answer to the confirmation is one of s, sim, yes, y
Affirmed == Lower(cmd.opts.confirm) \in {<<"s">>, <<"sim">>, <<"yes">>, <<"y">>}

\* call i changes nothing in the repository
ReadOnly(i) == issued[i].args \in {<<"status", "--porcelain">>, <<"diff", "--cached">>, <<"diff">>}

\* the scores the classifier gave in the command: those of the staged diff,
\* or of the working-tree diff asked for in its place
ScoresGiven ==
    LET answer == IF issued[2].kind = "exit" THEN issued[2] ELSE issued[3]
    IN IF answer.kind = "exit" /\ Len(answer.stdout) > 0 THEN Classify(answer.stdout)
       ELSE <<>>

\* the list the command generated from the answers it got
ListGenerated == Suggest(Categorize(SplitLines(Strip(issued[1].stdout))), ScoresGiven)

\* the ordinal chosen, 1 when none was typed
Chosen ==
    IF cmd.args = <<>> THEN 1 ELSE CHOOSE k \in 0..9 : ToString(k) = cmd.args[1]

NothingGenerated ==
    \E k \in 1..Len(out) : out[k] = <<"Nao foi possivel gerar sugestoes. Use commit manual.">>

\* C34: for every change set analyze returns (at least one status line),
\* generate returns at least one suggestion; the commands built on it
\* always have a first suggestion and never report that no suggestion
\* could be generated.
C34_AlwaysAFirstSuggestion ==
    /\ (ret.t = "suggestions" /\ cmd.name = "generate" /\ cmd.opts.changes_info.t = "changes"
          /\ cmd.opts.changes_info.total >= 1) => Len(ret.list) >= 1
    /\ (cmd.name \in {"smart-status", "smart-commit", "auto-stage"}) =>
           /\ ~NothingGenerated
           /\ ret.t = "suggestions" => Len(ret.list) >= 1

\* smart-commit without an argument on a tree whose one changed file is
\* untracked, which is in none of the four lists: the one suggestion is the
\* one drawn from the number of changes, and it was committed
C34_Witness ==
    /\ cmd.name = "smart-commit"
    /\ cmd.args = <<>>
    /\ cmd.pre.git.tree = <<Entry("?", "?", <<"n", ".txt">>, <<>>)>>
    /\ Len(issued) > 2
    /\ Len(ListGenerated) = 1
    /\ IsCommit(Len(issued))
    /\ issued[Len(issued)].args[3] = ListGenerated[1]

\* the name of the entry contains one of the patterns auto-stage leaves out
NamedAsExcluded(e) ==
    \E i \in 1..Len(e.path) :
        e.path[i] \in {".log", ".tmp", "node_modules/", ".env", "__pycache__/", ".pyc"}

\* C28 (as claimed): whatever the operator answers and the backend does,
\* an auto-stage run stages no changed file whose name contains an
\* excluded pattern: every such file is in the working tree after the run
\* as it was before it.
C28_ExcludedFilesNeverStaged ==
    (cmd.name = "auto-stage") =>
        \A i \in 1..Len(cmd.pre.git.tree) :
            NamedAsExcluded(cmd.pre.git.tree[i]) =>
                \E j \in 1..Len(git.tree) : git.tree[j] = cmd.pre.git.tree[i]

====
